---- MODULE Spec2Model ----
(***************************************************************************)
(* A model of the SQL zen store (src/zenml/zen_stores/sql_zen_store.py):   *)
(* the entity tables with their uniqueness and sharing guards, and the    *)
(* run-lineage tables.  Every public store method is one action that      *)
(* covers the whole `with Session(...)` block: guards, writes and the      *)
(* single commit.  A raised exception leaves the tables as they were (the *)
(* session is closed without a commit) and is recorded in `last`.         *)
(* Where callers overlap, or a method commits more than once, a call is   *)
(* a sequence of actions and `callers` holds each caller's position.      *)
(* `alembic` is the migration state that migrate_database works on.       *)
(***************************************************************************)
EXTENDS Integers, Sequences, FiniteSets, TLC

VARIABLES users, projects, stacks, components, last,
          pipelines, runs, callers,
          artifacts, steps, step_parents, step_input_artifacts, step_output_artifacts,
          flavors,
          teams, roles, role_permissions, user_role_assignments, team_role_assignments,
          secrets, secret_call,
          alembic

runVars == <<pipelines, runs, callers>>
stepVars == <<artifacts, steps, step_parents, step_input_artifacts, step_output_artifacts>>

rbacVars == <<teams, roles, role_permissions, user_role_assignments, team_role_assignments>>

secretVars == <<secrets, secret_call>>

(* everything but the migration state *)
storeVars == <<users, projects, stacks, components, last, runVars, stepVars, flavors,
               rbacVars, secretVars>>

vars == <<storeVars, alembic>>

(* ------------------------------ bounds -------------------------------- *)

MaxUsers == 2
MaxProjects == 2
MaxStacks == 3
MaxComponents == 4
MaxRefs == 1
MaxPipelines == 1
MaxRuns == 2
MaxCallers == 2
MaxArtifacts == 1
MaxSteps == 2
MaxParents == 1
MaxFlavors == 2
MaxRoles == 3
MaxTeams == 1
MaxSecrets == 1
MaxPairs == 2
MaxHandlers == 2
MaxEdgeArtifacts == 2

UserIds == 1..MaxUsers
ProjectIds == 1..MaxProjects
StackIds == 1..MaxStacks
ComponentIds == 1..MaxComponents
PipelineIds == 1..MaxPipelines
RunIds == 1..MaxRuns
Callers == 1..MaxCallers
ArtifactIds == 1..MaxArtifacts
StepIds == 1..MaxSteps
FlavorIds == 1..MaxFlavors
RoleIds == 1..MaxRoles
TeamIds == 1..MaxTeams
SecretIds == 1..MaxSecrets

(* Python's None, where an optional id is absent *)
None == 0

(* --------------------------- program constants ------------------------ *)

DEFAULT_STACK_NAME == "default"
DEFAULT_STACK_COMPONENT_NAME == "default"
ADMIN_ROLE == "admin"
GUEST_ROLE == "guest"
LOCAL_FLAVOR == "local"
default_user_name == "default"
default_project_name == "default"

ORCHESTRATOR == "orchestrator"
ARTIFACT_STORE == "artifact_store"
CONTAINER_REGISTRY == "container_registry"
RUNNING == "running"
COMPLETED == "completed"
FAILED == "failed"
CACHED == "cached"
ExecutionStatus == {RUNNING, COMPLETED, FAILED, CACHED}

StackComponentType == {ORCHESTRATOR, ARTIFACT_STORE, CONTAINER_REGISTRY}

Names == {"default", "a", "b"}

(* exception kinds; NoError is a normal return *)
NoError == "none"
KeyError == "KeyError"
StackExistsError == "StackExistsError"
StackComponentExistsError == "StackComponentExistsError"
EntityExistsError == "EntityExistsError"
IllegalOperationError == "IllegalOperationError"
IntegrityError == "IntegrityError"

(* what the last call returned or raised: the exception kind, which check *)
(* raised it (or which warning a successful call logged), and the id of   *)
(* the returned model                                                  *)
Result(op, err, why) == [op |-> op, err |-> err, why |-> why, ret |-> None]
Ok(op) == Result(op, NoError, "")

(* ------------------------------ helpers ------------------------------- *)

RECURSIVE SeqsUpTo(_, _)
SeqsUpTo(S, n) ==
    IF n = 0 THEN {<<>>}
    ELSE LET shorter == SeqsUpTo(S, n - 1)
         IN  shorter \cup {Append(q, x) : q \in {p \in shorter : Len(p) = n - 1}, x \in S}

Range(q) == {q[i] : i \in DOMAIN q}

ById(rows, id) == {x \in rows : x.id = id}
ByName(rows, name) == {x \in rows : x.name = name}

(* session.exec(select(...).where(id == ...)).first() is None *)
Missing(rows, id) == ById(rows, id) = {}

(* ------------------------- users and projects ------------------------- *)

(* create_user: the name must be unused; the model's id is a fresh one *)
create_user(name) ==
    /\ IF ByName(users, name) # {}
       THEN /\ last' = Result("create_user", EntityExistsError, "name")
            /\ UNCHANGED users
       ELSE /\ \E id \in UserIds :
                 /\ Missing(users, id)
                 /\ \A j \in UserIds : j < id => ~Missing(users, j)
                 /\ users' = users \cup {[id |-> id, name |-> name]}
            /\ last' = Ok("create_user")
    /\ UNCHANGED <<projects, stacks, components, runVars, stepVars,
                   flavors, rbacVars, secretVars, alembic>>

create_project(name) ==
    /\ IF ByName(projects, name) # {}
       THEN /\ last' = Result("create_project", EntityExistsError, "name")
            /\ UNCHANGED projects
       ELSE /\ \E id \in ProjectIds :
                 /\ Missing(projects, id)
                 /\ \A j \in ProjectIds : j < id => ~Missing(projects, j)
                 /\ projects' = projects \cup {[id |-> id, name |-> name]}
            /\ last' = Ok("create_project")
    /\ UNCHANGED <<users, stacks, components, runVars, stepVars,
                   flavors, rbacVars, secretVars, alembic>>

(* ------------------------------- stacks ------------------------------- *)

(* the three guards: TRUE when the guard raises StackExistsError *)
fail_if_stack_with_id_already_exists(stack, rows) ==
    \E x \in rows : x.id = stack.id

(* variant: the owner is not compared *)
fail_if_stack_with_name_exists(stack, rows) ==
    \E x \in rows : /\ x.name = stack.name
                    /\ x.project = stack.project

fail_if_stack_with_name_exists_for_user(stack, rows) ==
    \E x \in rows : /\ x.name = stack.name
                    /\ x.project = stack.project
                    /\ x.user = stack.user

fail_if_stack_with_name_already_shared(stack, rows) ==
    \E x \in rows : /\ x.name = stack.name
                    /\ x.project = stack.project
                    /\ x.is_shared = stack.is_shared

(* select(StackComponentSchema).where(or_ of the id filters): the rows   *)
(* whose id is one of the referenced ids; or_ of no filter renders no     *)
(* WHERE clause, so an empty reference list selects every component row.  *)
defined_components(refs, rows) ==
    IF Len(refs) = 0 THEN {c.id : c \in rows}
    ELSE {c.id : c \in {x \in rows : x.id \in Range(refs)}}

StackRow(stack, defined) ==
    [id |-> stack.id, name |-> stack.name, project |-> stack.project,
     user |-> stack.user, is_shared |-> stack.is_shared, components |-> defined]

(* variant: the name of the owner is compared before the id *)
create_stack_outcome_domain_first(stack) ==
    IF Missing(projects, stack.project) THEN Result("create_stack", KeyError, "project")
    ELSE IF Missing(users, stack.user) THEN Result("create_stack", KeyError, "user")
    ELSE IF fail_if_stack_with_name_exists_for_user(stack, stacks)
         THEN Result("create_stack", StackExistsError, "domain")
    ELSE IF fail_if_stack_with_id_already_exists(stack, stacks)
         THEN Result("create_stack", StackExistsError, "id")
    ELSE IF stack.is_shared /\ fail_if_stack_with_name_already_shared(stack, stacks)
         THEN Result("create_stack", StackExistsError, "shared")
    ELSE IF /\ Len(stack.components) > 0
            /\ Cardinality(defined_components(stack.components, components))
                 # Len(stack.components)
         THEN Result("create_stack", KeyError, "components")
    ELSE Ok("create_stack")

create_stack_outcome(stack) ==
    IF Missing(projects, stack.project) THEN Result("create_stack", KeyError, "project")
    ELSE IF Missing(users, stack.user) THEN Result("create_stack", KeyError, "user")
    ELSE IF fail_if_stack_with_id_already_exists(stack, stacks)
         THEN Result("create_stack", StackExistsError, "id")
    ELSE IF fail_if_stack_with_name_exists_for_user(stack, stacks)
         THEN Result("create_stack", StackExistsError, "domain")
    ELSE IF stack.is_shared /\ fail_if_stack_with_name_already_shared(stack, stacks)
         THEN Result("create_stack", StackExistsError, "shared")
    ELSE IF /\ Len(stack.components) > 0
            /\ Cardinality(defined_components(stack.components, components))
                 # Len(stack.components)
         THEN Result("create_stack", KeyError, "components")
    ELSE Ok("create_stack")

create_stack(stack) ==
    /\ last' = create_stack_outcome(stack)
    /\ stacks' = IF last'.err = NoError
                 THEN stacks \cup {StackRow(stack, defined_components(stack.components, components))}
                 ELSE stacks
    /\ UNCHANGED <<users, projects, components, runVars, stepVars,
                   flavors, rbacVars, secretVars, alembic>>

(* StackSchema.from_update_model: the payload's fields overwrite the row's *)
stack_from_update_model(existing, stack, defined) ==
    [existing EXCEPT !.name = stack.name, !.project = stack.project,
                     !.user = stack.user, !.is_shared = stack.is_shared,
                     !.components = defined]

update_stack_outcome(stack) ==
    IF Missing(stacks, stack.id) THEN Result("update_stack", KeyError, "id")
    ELSE LET existing_stack == CHOOSE x \in stacks : x.id = stack.id IN
      IF existing_stack.name = DEFAULT_STACK_NAME
      THEN Result("update_stack", IllegalOperationError, "default")
      ELSE IF existing_stack.name # stack.name /\ Missing(projects, stack.project)
      THEN Result("update_stack", KeyError, "project")
      ELSE IF existing_stack.name # stack.name /\ Missing(users, stack.user)
      THEN Result("update_stack", KeyError, "user")
      ELSE IF /\ existing_stack.name # stack.name
              /\ fail_if_stack_with_name_exists_for_user(stack, stacks)
      THEN Result("update_stack", StackExistsError, "domain")
      ELSE IF /\ ~existing_stack.is_shared /\ stack.is_shared
              /\ Missing(projects, stack.project)
      THEN Result("update_stack", KeyError, "project")
      ELSE IF /\ ~existing_stack.is_shared /\ stack.is_shared
              /\ fail_if_stack_with_name_already_shared(stack, stacks)
      THEN Result("update_stack", StackExistsError, "shared")
      ELSE Ok("update_stack")

update_stack(stack) ==
    /\ last' = update_stack_outcome(stack)
    /\ stacks' =
         IF last'.err = NoError
         THEN LET existing_stack == CHOOSE x \in stacks : x.id = stack.id
              IN  (stacks \ {existing_stack}) \cup
                  {stack_from_update_model(existing_stack, stack,
                       defined_components(stack.components, components))}
         ELSE stacks
    /\ UNCHANGED <<users, projects, components, runVars, stepVars,
                   flavors, rbacVars, secretVars, alembic>>

(* variant: only the default stack of the default user is protected *)
delete_stack_outcome_of_store_default(stack_id) ==
    IF Missing(stacks, stack_id) THEN Result("delete_stack", KeyError, "id")
    ELSE IF \E x \in stacks : /\ x.id = stack_id
                              /\ x.name = DEFAULT_STACK_NAME
                              /\ x.user = 1 /\ x.project = 1
    THEN Result("delete_stack", IllegalOperationError, "default")
    ELSE Ok("delete_stack")

delete_stack_outcome(stack_id) ==
    IF Missing(stacks, stack_id) THEN Result("delete_stack", KeyError, "id")
    ELSE IF (CHOOSE x \in stacks : x.id = stack_id).name = DEFAULT_STACK_NAME
    THEN Result("delete_stack", IllegalOperationError, "default")
    ELSE Ok("delete_stack")

delete_stack(stack_id) ==
    /\ last' = delete_stack_outcome(stack_id)
    /\ stacks' = IF last'.err = NoError THEN stacks \ ById(stacks, stack_id) ELSE stacks
    /\ UNCHANGED <<users, projects, components, runVars, stepVars,
                   flavors, rbacVars, secretVars, alembic>>

(* --------------------------- stack components ------------------------- *)

(* the three guards: TRUE when the guard raises StackComponentExistsError *)
fail_if_component_with_id_already_exists(component, rows) ==
    \E x \in rows : x.id = component.id

fail_if_component_with_name_type_exists_for_user(component, rows) ==
    \E x \in rows : /\ x.name = component.name
                    /\ x.project = component.project
                    /\ x.user = component.user
                    /\ x.type = component.type

(* variant: only the payload owner's own components are compared *)
fail_if_component_with_name_type_already_shared_by_user(component, rows) ==
    \E x \in rows : /\ x.name = component.name
                    /\ x.project = component.project
                    /\ x.is_shared = component.is_shared
                    /\ x.type = component.type
                    /\ x.user = component.user

fail_if_component_with_name_type_already_shared(component, rows) ==
    \E x \in rows : /\ x.name = component.name
                    /\ x.project = component.project
                    /\ x.is_shared = component.is_shared
                    /\ x.type = component.type

create_stack_component_outcome(component) ==
    IF Missing(projects, component.project)
    THEN Result("create_stack_component", KeyError, "project")
    ELSE IF Missing(users, component.user)
    THEN Result("create_stack_component", KeyError, "user")
    ELSE IF fail_if_component_with_id_already_exists(component, components)
    THEN Result("create_stack_component", StackComponentExistsError, "id")
    ELSE IF fail_if_component_with_name_type_exists_for_user(component, components)
    THEN Result("create_stack_component", StackComponentExistsError, "domain")
    ELSE IF /\ component.is_shared
            /\ fail_if_component_with_name_type_already_shared(component, components)
    THEN Result("create_stack_component", StackComponentExistsError, "shared")
    ELSE Ok("create_stack_component")

create_stack_component(component) ==
    /\ last' = create_stack_component_outcome(component)
    /\ components' = IF last'.err = NoError THEN components \cup {component}
                     ELSE components
    /\ UNCHANGED <<users, projects, stacks, runVars, stepVars,
                   flavors, rbacVars, secretVars, alembic>>

IsDefaultComponent(x) ==
    /\ x.name = DEFAULT_STACK_COMPONENT_NAME
    /\ x.type \in {ORCHESTRATOR, ARTIFACT_STORE}

(* StackComponentSchema.from_update_model: the payload's fields overwrite *)
(* the row's                                                              *)
component_from_update_model(existing, component) ==
    [existing EXCEPT !.name = component.name, !.project = component.project,
                     !.user = component.user, !.is_shared = component.is_shared]

update_stack_component_outcome(component) ==
    IF Missing(components, component.id)
    THEN Result("update_stack_component", KeyError, "id")
    ELSE LET existing_component == CHOOSE x \in components : x.id = component.id IN
      IF IsDefaultComponent(existing_component)
      THEN Result("update_stack_component", IllegalOperationError, "default")
      ELSE IF existing_component.name # component.name /\ Missing(projects, component.project)
      THEN Result("update_stack_component", KeyError, "project")
      ELSE IF existing_component.name # component.name /\ Missing(users, component.user)
      THEN Result("update_stack_component", KeyError, "user")
      ELSE IF /\ existing_component.name # component.name
              /\ fail_if_component_with_name_type_exists_for_user(component, components)
      THEN Result("update_stack_component", StackComponentExistsError, "domain")
      ELSE IF /\ ~existing_component.is_shared /\ component.is_shared
              /\ Missing(projects, component.project)
      THEN Result("update_stack_component", KeyError, "project")
      ELSE IF /\ ~existing_component.is_shared /\ component.is_shared
              /\ fail_if_component_with_name_type_already_shared(component, components)
      THEN Result("update_stack_component", StackComponentExistsError, "shared")
      ELSE Ok("update_stack_component")

update_stack_component(component) ==
    /\ last' = update_stack_component_outcome(component)
    /\ components' =
         IF last'.err = NoError
         THEN LET existing_component == CHOOSE x \in components : x.id = component.id
              IN  (components \ {existing_component}) \cup
                  {component_from_update_model(existing_component, component)}
         ELSE components
    /\ UNCHANGED <<users, projects, stacks, runVars, stepVars,
                   flavors, rbacVars, secretVars, alembic>>

(* variant: the stacks the component is part of are not looked at *)
delete_stack_component_outcome_unlinked(component_id) ==
    IF Missing(components, component_id)
    THEN Result("delete_stack_component", KeyError, "id")
    ELSE IF IsDefaultComponent(CHOOSE x \in components : x.id = component_id)
    THEN Result("delete_stack_component", IllegalOperationError, "default")
    ELSE Ok("delete_stack_component")

(* .one() raises NoResultFound, turned into KeyError; stack_component.stacks *)
(* are the stacks whose composition holds the component                     *)
delete_stack_component_outcome(component_id) ==
    IF Missing(components, component_id)
    THEN Result("delete_stack_component", KeyError, "id")
    ELSE IF IsDefaultComponent(CHOOSE x \in components : x.id = component_id)
    THEN Result("delete_stack_component", IllegalOperationError, "default")
    ELSE IF \E s \in stacks : component_id \in s.components
    THEN Result("delete_stack_component", IllegalOperationError, "stacks")
    ELSE Ok("delete_stack_component")

delete_stack_component(component_id) ==
    /\ last' = delete_stack_component_outcome(component_id)
    /\ components' = IF last'.err = NoError
                     THEN components \ ById(components, component_id)
                     ELSE components
    /\ UNCHANGED <<users, projects, stacks, runVars, stepVars,
                   flavors, rbacVars, secretVars, alembic>>

(* ------------------------------- flavors ------------------------------ *)

(* create_flavor: the domain key is (name, type, project, owner); the id  *)
(* is the primary key                                                     *)
create_flavor_outcome(flavor) ==
    IF \E x \in flavors : /\ x.name = flavor.name /\ x.type = flavor.type
                          /\ x.project = flavor.project /\ x.user = flavor.user
    THEN Result("create_flavor", EntityExistsError, "domain")
    ELSE IF ~Missing(flavors, flavor.id)
    THEN Result("create_flavor", IntegrityError, "id")
    ELSE Ok("create_flavor")

create_flavor(flavor) ==
    /\ last' = create_flavor_outcome(flavor)
    /\ flavors' = IF last'.err = NoError THEN flavors \cup {flavor} ELSE flavors
    /\ UNCHANGED <<users, projects, stacks, components, runVars, stepVars, rbacVars,
                   secretVars, alembic>>

(* variant: only the components of the flavor's type count *)
components_of_flavor_and_type(flavor_in_db) ==
    {c \in components : c.flavor = flavor_in_db.name /\ c.type = flavor_in_db.type}

(* the components whose flavor column holds the flavor's name *)
components_of_flavor(flavor_in_db) ==
    {c \in components : c.flavor = flavor_in_db.name}

delete_flavor_outcome(flavor_id) ==
    IF Missing(flavors, flavor_id) THEN Result("delete_flavor", KeyError, "id")
    ELSE IF components_of_flavor(CHOOSE x \in flavors : x.id = flavor_id) # {}
    THEN Result("delete_flavor", IllegalOperationError, "components")
    ELSE Ok("delete_flavor")

delete_flavor(flavor_id) ==
    /\ last' = delete_flavor_outcome(flavor_id)
    /\ flavors' = IF last'.err = NoError THEN flavors \ ById(flavors, flavor_id)
                  ELSE flavors
    /\ UNCHANGED <<users, projects, stacks, components, runVars, stepVars, rbacVars,
                   secretVars, alembic>>

(* --------------------------- the resolver ----------------------------- *)

(* the text of a UUID: what str(uuid) gives and what UUID(text) parses *)
UuidText(id) == "uuid-" \o ToString(id)

UuidTexts == {UuidText(i) : i \in 1..(MaxRuns + MaxStacks + MaxComponents)}

(* uuid_utils.is_valid_uuid: a UUID object, or a string that parses as one *)
is_valid_uuid(name_or_id) == name_or_id \in UuidTexts

(* variant: an input that is no stored id is looked up as a name *)
get_schema_by_name_or_id_or_name(name_or_id, rows) ==
    IF {x \in rows : UuidText(x.id) = name_or_id} # {}
    THEN {x \in rows : UuidText(x.id) = name_or_id}
    ELSE {x \in rows : x.name = name_or_id}

(* _get_schema_by_name_or_id: the rows the one filter selects, by id when *)
(* the input is a valid UUID and by name otherwise; KeyError when none    *)
get_schema_by_name_or_id(name_or_id, rows) ==
    IF is_valid_uuid(name_or_id)
    THEN {x \in rows : UuidText(x.id) = name_or_id}
    ELSE {x \in rows : x.name = name_or_id}

(* ------------------ updates and deletes of users, projects ------------- *)

(* UserSchema.from_update_model: the payload's name overwrites the row's *)
user_from_update_model(existing, user) == [existing EXCEPT !.name = user.name]

(* variant: the default user is renamed like any other *)
update_user_outcome_unprotected(user) ==
    IF Missing(users, user.id) THEN Result("update_user", KeyError, "id")
    ELSE [Ok("update_user") EXCEPT !.ret = user.id]

update_user_outcome(user) ==
    IF Missing(users, user.id) THEN Result("update_user", KeyError, "id")
    ELSE LET existing_user == CHOOSE x \in users : x.id = user.id IN
      IF existing_user.name = default_user_name /\ user.name # existing_user.name
      THEN Result("update_user", IllegalOperationError, "default")
      ELSE [Ok("update_user") EXCEPT !.ret = user.id]

update_user(user) ==
    /\ last' = update_user_outcome(user)
    /\ users' = IF last'.err = NoError
                THEN {IF x.id = user.id THEN user_from_update_model(x, user) ELSE x
                        : x \in users}
                ELSE users
    /\ UNCHANGED <<projects, stacks, components, runVars, stepVars, flavors, rbacVars,
                   secretVars, alembic>>

delete_user_outcome(user) ==
    IF user.name = default_user_name
    THEN Result("delete_user", IllegalOperationError, "default")
    ELSE [Ok("delete_user") EXCEPT !.ret = user.id]

delete_user(user_name_or_id) ==
    /\ IF get_schema_by_name_or_id(user_name_or_id, users) = {}
       THEN /\ last' = Result("delete_user", KeyError, "user")
            /\ UNCHANGED users
       ELSE \E user \in get_schema_by_name_or_id(user_name_or_id, users) :
            /\ last' = delete_user_outcome(user)
            /\ users' = IF last'.err = NoError THEN users \ {user} ELSE users
    /\ UNCHANGED <<projects, stacks, components, runVars, stepVars, flavors, rbacVars,
                   secretVars, alembic>>

(* ProjectSchema.from_update_model: the payload's name overwrites the row's *)
project_from_update_model(existing, project) == [existing EXCEPT !.name = project.name]

update_project_outcome(project) ==
    IF Missing(projects, project.id) THEN Result("update_project", KeyError, "id")
    ELSE LET existing_project == CHOOSE x \in projects : x.id = project.id IN
      IF /\ existing_project.name = default_project_name
         /\ project.name # existing_project.name
      THEN Result("update_project", IllegalOperationError, "default")
      ELSE [Ok("update_project") EXCEPT !.ret = project.id]

update_project(project) ==
    /\ last' = update_project_outcome(project)
    /\ projects' = IF last'.err = NoError
                   THEN {IF x.id = project.id THEN project_from_update_model(x, project)
                         ELSE x : x \in projects}
                   ELSE projects
    /\ UNCHANGED <<users, stacks, components, runVars, stepVars, flavors, rbacVars,
                   secretVars, alembic>>

(* variant: the default project is deleted like any other *)
delete_project_outcome_unprotected(project) ==
    [Ok("delete_project") EXCEPT !.ret = project.id]

delete_project_outcome(project) ==
    IF project.name = default_project_name
    THEN Result("delete_project", IllegalOperationError, "default")
    ELSE [Ok("delete_project") EXCEPT !.ret = project.id]

delete_project(project_name_or_id) ==
    /\ IF get_schema_by_name_or_id(project_name_or_id, projects) = {}
       THEN /\ last' = Result("delete_project", KeyError, "project")
            /\ UNCHANGED projects
       ELSE \E project \in get_schema_by_name_or_id(project_name_or_id, projects) :
            /\ last' = delete_project_outcome(project)
            /\ projects' = IF last'.err = NoError THEN projects \ {project} ELSE projects
    /\ UNCHANGED <<users, stacks, components, runVars, stepVars, flavors, rbacVars,
                   secretVars, alembic>>

(* --------------------------- teams and roles --------------------------- *)

(* an optional name-or-id argument that is not given (None, and falsy     *)
(* like the empty string)                                                 *)
NoName == ""

create_team_outcome(team) ==
    IF ByName(teams, team.name) # {} THEN Result("create_team", EntityExistsError, "name")
    ELSE IF ~Missing(teams, team.id) THEN Result("create_team", IntegrityError, "id")
    ELSE Ok("create_team")

create_team(team) ==
    /\ last' = create_team_outcome(team)
    /\ teams' = IF last'.err = NoError THEN teams \cup {team} ELSE teams
    /\ UNCHANGED <<users, projects, stacks, components, runVars, stepVars, flavors,
                   roles, role_permissions, user_role_assignments, team_role_assignments,
                   secretVars, alembic>>

(* the RolePermissionSchema rows of a permission set *)
permissions_of(role_id, names) == {[name |-> n, role_id |-> role_id] : n \in names}

create_role_outcome(role) ==
    IF ByName(roles, role.name) # {} THEN Result("create_role", EntityExistsError, "name")
    ELSE IF ~Missing(roles, role.id) THEN Result("create_role", IntegrityError, "id")
    ELSE [Ok("create_role") EXCEPT !.ret = role.id]

create_role(role) ==
    /\ last' = create_role_outcome(role)
    /\ IF last'.err = NoError
       THEN /\ roles' = roles \cup {[id |-> role.id, name |-> role.name]}
            /\ role_permissions' =
                 role_permissions \cup permissions_of(role.id, role.permissions)
       ELSE UNCHANGED <<roles, role_permissions>>
    /\ UNCHANGED <<users, projects, stacks, components, runVars, stepVars, flavors,
                   teams, user_role_assignments, team_role_assignments,
                   secretVars, alembic>>

IsBuiltInRole(role) == role.name \in {ADMIN_ROLE, GUEST_ROLE}

(* RoleSchema.from_update_model: the payload's name overwrites the row's *)
role_from_update_model(existing, role) == [existing EXCEPT !.name = role.name]

(* variant: built-in roles are updated like any other *)
update_role_outcome_unprotected(role) ==
    IF Missing(roles, role.id) THEN Result("update_role", KeyError, "id")
    ELSE [Ok("update_role") EXCEPT !.ret = role.id]

update_role_outcome(role) ==
    IF Missing(roles, role.id) THEN Result("update_role", KeyError, "id")
    ELSE IF IsBuiltInRole(CHOOSE x \in roles : x.id = role.id)
    THEN Result("update_role", IllegalOperationError, "builtin")
    ELSE [Ok("update_role") EXCEPT !.ret = role.id]

(* the permissions of the role that are not in the payload are deleted   *)
(* and those of the payload that are not stored are added                 *)
update_role(role) ==
    /\ last' = update_role_outcome(role)
    /\ IF last'.err = NoError
       THEN /\ roles' = {IF x.id = role.id THEN role_from_update_model(x, role) ELSE x
                            : x \in roles}
            /\ role_permissions' =
                 {p \in role_permissions : p.role_id # role.id \/ p.name \in role.permissions}
                     \cup permissions_of(role.id, role.permissions)
       ELSE UNCHANGED <<roles, role_permissions>>
    /\ UNCHANGED <<users, projects, stacks, components, runVars, stepVars, flavors,
                   teams, user_role_assignments, team_role_assignments,
                   secretVars, alembic>>

(* variant: only the assignments to users are looked at *)
delete_role_outcome_users_only(role) ==
    IF IsBuiltInRole(role) THEN Result("delete_role", IllegalOperationError, "builtin")
    ELSE IF \E a \in user_role_assignments : a.role_id = role.id
    THEN Result("delete_role", IllegalOperationError, "assigned")
    ELSE [Ok("delete_role") EXCEPT !.ret = role.id]

(* delete_role once the role is resolved *)
delete_role_outcome(role) ==
    IF IsBuiltInRole(role) THEN Result("delete_role", IllegalOperationError, "builtin")
    ELSE IF \/ \E a \in user_role_assignments : a.role_id = role.id
            \/ \E a \in team_role_assignments : a.role_id = role.id
    THEN Result("delete_role", IllegalOperationError, "assigned")
    ELSE [Ok("delete_role") EXCEPT !.ret = role.id]

(* the role's permission rows go with the role *)
delete_role(role_name_or_id) ==
    /\ IF get_schema_by_name_or_id(role_name_or_id, roles) = {}
       THEN /\ last' = Result("delete_role", KeyError, "role")
            /\ UNCHANGED <<roles, role_permissions>>
       ELSE \E role \in get_schema_by_name_or_id(role_name_or_id, roles) :
            /\ last' = delete_role_outcome(role)
            /\ IF last'.err = NoError
               THEN /\ roles' = roles \ {role}
                    /\ role_permissions' = {p \in role_permissions : p.role_id # role.id}
               ELSE UNCHANGED <<roles, role_permissions>>
    /\ UNCHANGED <<users, projects, stacks, components, runVars, stepVars, flavors,
                   teams, user_role_assignments, team_role_assignments,
                   secretVars, alembic>>

(* the rows of a role for a user or team, of the project when one is    *)
(* given and of any scope otherwise                                       *)
existing_role_assignments(assignments, role, subject_id, project_id) ==
    {x \in assignments :
        /\ x.role_id = role.id
        /\ x.subject_id = subject_id
        /\ (project_id # None => x.project_id = project_id)}

(* the references of a call, resolved: a set of <<role, subject, project  *)
(* id>> choices when all exist, the argument that is missing otherwise    *)
resolved_project_ids(project_name_or_id) ==
    IF project_name_or_id = NoName THEN {None}
    ELSE {x.id : x \in get_schema_by_name_or_id(project_name_or_id, projects)}

resolved_subject_ids(name_or_id, is_user) ==
    {x.id : x \in get_schema_by_name_or_id(name_or_id, IF is_user THEN users ELSE teams)}

role_assignments(is_user) ==
    IF is_user THEN {[role_id |-> x.role_id, subject_id |-> x.user_id,
                      project_id |-> x.project_id] : x \in user_role_assignments}
    ELSE {[role_id |-> x.role_id, subject_id |-> x.team_id,
           project_id |-> x.project_id] : x \in team_role_assignments}

(* _assign_role_to_user, _assign_role_to_team once everything is resolved *)
assign_role_outcome(role, subject_id, project_id, is_user) ==
    IF existing_role_assignments(role_assignments(is_user), role, subject_id, project_id) # {}
    THEN Result("assign_role", EntityExistsError, "assigned")
    ELSE [Ok("assign_role") EXCEPT !.ret = role.id]

assign_role(role_name_or_id, user_or_team_name_or_id, project_name_or_id, is_user) ==
    /\ IF get_schema_by_name_or_id(role_name_or_id, roles) = {}
       THEN /\ last' = Result("assign_role", KeyError, "role")
            /\ UNCHANGED <<user_role_assignments, team_role_assignments>>
       ELSE IF resolved_project_ids(project_name_or_id) = {}
       THEN /\ last' = Result("assign_role", KeyError, "project")
            /\ UNCHANGED <<user_role_assignments, team_role_assignments>>
       ELSE IF resolved_subject_ids(user_or_team_name_or_id, is_user) = {}
       THEN /\ last' = Result("assign_role", KeyError, "subject")
            /\ UNCHANGED <<user_role_assignments, team_role_assignments>>
       ELSE \E role \in get_schema_by_name_or_id(role_name_or_id, roles),
               project_id \in resolved_project_ids(project_name_or_id),
               subject_id \in resolved_subject_ids(user_or_team_name_or_id, is_user) :
            /\ last' = assign_role_outcome(role, subject_id, project_id, is_user)
            /\ IF last'.err # NoError
               THEN UNCHANGED <<user_role_assignments, team_role_assignments>>
               ELSE IF is_user
               THEN /\ user_role_assignments' = user_role_assignments \cup
                         {[role_id |-> role.id, user_id |-> subject_id,
                           project_id |-> project_id]}
                    /\ UNCHANGED team_role_assignments
               ELSE /\ team_role_assignments' = team_role_assignments \cup
                         {[role_id |-> role.id, team_id |-> subject_id,
                           project_id |-> project_id]}
                    /\ UNCHANGED user_role_assignments
    /\ UNCHANGED <<users, projects, stacks, components, runVars, stepVars, flavors,
                   teams, roles, role_permissions, secretVars, alembic>>

(* revoke_role: the project is resolved first, then the role, then the    *)
(* user or team; .first() takes any one of the rows the query selects     *)
(* (a successful call records whether a project was given)                *)
revoke_role(role_name_or_id, user_or_team_name_or_id, is_user, project_name_or_id) ==
    /\ IF resolved_project_ids(project_name_or_id) = {}
       THEN /\ last' = Result("revoke_role", KeyError, "project")
            /\ UNCHANGED <<user_role_assignments, team_role_assignments>>
       ELSE IF get_schema_by_name_or_id(role_name_or_id, roles) = {}
       THEN /\ last' = Result("revoke_role", KeyError, "role")
            /\ UNCHANGED <<user_role_assignments, team_role_assignments>>
       ELSE IF resolved_subject_ids(user_or_team_name_or_id, is_user) = {}
       THEN /\ last' = Result("revoke_role", KeyError, "subject")
            /\ UNCHANGED <<user_role_assignments, team_role_assignments>>
       ELSE \E role \in get_schema_by_name_or_id(role_name_or_id, roles),
               project_id \in resolved_project_ids(project_name_or_id),
               subject_id \in resolved_subject_ids(user_or_team_name_or_id, is_user) :
            LET found == existing_role_assignments(role_assignments(is_user), role,
                                                   subject_id, project_id)
            IN  IF found = {}
                THEN /\ last' = Result("revoke_role", KeyError, "assignment")
                     /\ UNCHANGED <<user_role_assignments, team_role_assignments>>
                ELSE \E role_assignment \in found :
                     /\ last' = [Ok("revoke_role") EXCEPT
                                   !.ret = role.id,
                                   !.why = IF project_id = None THEN "global"
                                           ELSE "project"]
                     /\ IF is_user
                        THEN /\ user_role_assignments' = user_role_assignments \
                                  {[role_id |-> role.id, user_id |-> subject_id,
                                    project_id |-> role_assignment.project_id]}
                             /\ UNCHANGED team_role_assignments
                        ELSE /\ team_role_assignments' = team_role_assignments \
                                  {[role_id |-> role.id, team_id |-> subject_id,
                                    project_id |-> role_assignment.project_id]}
                             /\ UNCHANGED user_role_assignments
    /\ UNCHANGED <<users, projects, stacks, components, runVars, stepVars, flavors,
                   teams, roles, role_permissions, secretVars, alembic>>

(* ------------------------------ pipelines ----------------------------- *)

create_pipeline_outcome(pipeline) ==
    IF \E x \in pipelines : x.name = pipeline.name /\ x.project = pipeline.project
    THEN Result("create_pipeline", EntityExistsError, "name")
    ELSE IF ~Missing(pipelines, pipeline.id)
    THEN Result("create_pipeline", IntegrityError, "id")
    ELSE Ok("create_pipeline")

create_pipeline(pipeline) ==
    /\ last' = create_pipeline_outcome(pipeline)
    /\ pipelines' = IF last'.err = NoError THEN pipelines \cup {pipeline} ELSE pipelines
    /\ UNCHANGED <<users, projects, stacks, components, runs, callers, stepVars,
                   flavors, rbacVars, secretVars, alembic>>

(* ---------------------------- pipeline runs --------------------------- *)

(* variant: only the name is checked *)
create_run_checks_name_only(pipeline_run, rows) ==
    IF \E x \in rows : x.name = pipeline_run.name THEN "name" ELSE NoError

(* create_run's two existence checks: the error they raise, or NoError *)
create_run_checks(pipeline_run, rows) ==
    IF \E x \in rows : x.name = pipeline_run.name THEN "name"
    ELSE IF \E x \in rows : x.id = pipeline_run.id THEN "id"
    ELSE NoError

(* variant: the references are stored as the payload gives them *)
run_from_create_model_as_given(pipeline_run) ==
    [id |-> pipeline_run.id, name |-> pipeline_run.name,
     stack_id |-> pipeline_run.stack_id, pipeline_id |-> pipeline_run.pipeline_id]

(* the row create_run builds: a stack or pipeline reference that names no *)
(* stored row is set to None                                              *)
run_from_create_model(pipeline_run) ==
    [id |-> pipeline_run.id, name |-> pipeline_run.name,
     stack_id |-> IF pipeline_run.stack_id # None /\ Missing(stacks, pipeline_run.stack_id)
                  THEN None ELSE pipeline_run.stack_id,
     pipeline_id |-> IF pipeline_run.pipeline_id # None
                        /\ Missing(pipelines, pipeline_run.pipeline_id)
                     THEN None ELSE pipeline_run.pipeline_id]

(* the warnings create_run logs for the references it drops *)
run_warnings(pipeline_run) ==
    LET row == run_from_create_model(pipeline_run)
        noStack == row.stack_id # pipeline_run.stack_id
        noPipeline == row.pipeline_id # pipeline_run.pipeline_id
    IN  IF noStack /\ noPipeline THEN "no stack, no pipeline"
        ELSE IF noStack THEN "no stack"
        ELSE IF noPipeline THEN "no pipeline"
        ELSE ""

(* session.add(new_run); session.commit(): the id is the primary key *)
insert_run_error(row, rows) ==
    IF ~Missing(rows, row.id) THEN IntegrityError ELSE NoError

create_run_outcome(pipeline_run) ==
    LET check == create_run_checks(pipeline_run, runs) IN
    IF check # NoError THEN Result("create_run", EntityExistsError, check)
    ELSE IF insert_run_error(run_from_create_model(pipeline_run), runs) # NoError
    THEN Result("create_run", IntegrityError, "id")
    ELSE [Result("create_run", NoError, run_warnings(pipeline_run))
            EXCEPT !.ret = pipeline_run.id]

create_run(pipeline_run) ==
    /\ last' = create_run_outcome(pipeline_run)
    /\ runs' = IF last'.err = NoError
               THEN runs \cup {run_from_create_model(pipeline_run)}
               ELSE runs
    /\ UNCHANGED <<users, projects, stacks, components, pipelines, callers, stepVars,
                   flavors, rbacVars, secretVars, alembic>>

(* get_or_create_run, one caller's call in its steps: the create_run      *)
(* attempt (its checks, then its insert and commit), get_run by id, and   *)
(* get_run by name.  creates and reads count the attempts, found is       *)
(* whether a run of the id or the name was stored when the call began.    *)
IdleCaller ==
    [pc |-> "idle", arg |-> [id |-> None, name |-> "", stack_id |-> None, pipeline_id |-> None],
     row |-> [id |-> None, name |-> "", stack_id |-> None, pipeline_id |-> None],
     creates |-> 0, reads |-> 0, found |-> FALSE, inserted |-> FALSE,
     err |-> NoError, ret |-> None]

get_or_create_run_call(c, pipeline_run) ==
    /\ callers[c].pc \in {"idle", "done"}
    /\ callers' = [callers EXCEPT ![c] =
           [IdleCaller EXCEPT !.pc = "create_run", !.arg = pipeline_run,
               !.found = \E x \in runs : x.id = pipeline_run.id \/ x.name = pipeline_run.name]]
    /\ UNCHANGED <<users, projects, stacks, components, last, pipelines, runs, stepVars,
                   flavors, rbacVars, secretVars, alembic>>

(* create_run up to its insert: the two checks and the reference queries *)
get_or_create_run_check(c) ==
    /\ callers[c].pc = "create_run"
    /\ callers' = [callers EXCEPT ![c] =
           IF create_run_checks(callers[c].arg, runs) # NoError
           THEN [@ EXCEPT !.pc = "get_run_by_id", !.creates = @ + 1]
           ELSE [@ EXCEPT !.pc = "insert", !.creates = @ + 1,
                          !.row = run_from_create_model(callers[c].arg)]]
    /\ UNCHANGED <<users, projects, stacks, components, last, pipelines, runs, stepVars,
                   flavors, rbacVars, secretVars, alembic>>

(* the insert and commit: an IntegrityError is no EntityExistsError, so   *)
(* get_or_create_run does not catch it                                    *)
get_or_create_run_insert(c) ==
    /\ callers[c].pc = "insert"
    /\ IF insert_run_error(callers[c].row, runs) # NoError
       THEN /\ callers' = [callers EXCEPT ![c] =
                   [@ EXCEPT !.pc = "done", !.err = IntegrityError]]
            /\ UNCHANGED runs
       ELSE /\ callers' = [callers EXCEPT ![c] =
                   [@ EXCEPT !.pc = "done", !.ret = callers[c].row.id, !.inserted = TRUE]]
            /\ runs' = runs \cup {callers[c].row}
    /\ UNCHANGED <<users, projects, stacks, components, last, pipelines, stepVars,
                   flavors, rbacVars, secretVars, alembic>>

(* the whole create_run call in one step, for callers that do not overlap *)
get_or_create_run_create(c) ==
    /\ callers[c].pc = "create_run"
    /\ LET out == create_run_outcome(callers[c].arg) IN
         IF out.err = NoError
         THEN /\ runs' = runs \cup {run_from_create_model(callers[c].arg)}
              /\ callers' = [callers EXCEPT ![c] =
                     [@ EXCEPT !.pc = "done", !.creates = @ + 1, !.ret = out.ret,
                               !.inserted = TRUE]]
         ELSE /\ UNCHANGED runs
              /\ callers' = [callers EXCEPT ![c] =
                     IF out.err = EntityExistsError
                     THEN [@ EXCEPT !.pc = "get_run_by_id", !.creates = @ + 1]
                     ELSE [@ EXCEPT !.pc = "done", !.creates = @ + 1, !.err = out.err]]
    /\ UNCHANGED <<users, projects, stacks, components, last, pipelines, stepVars,
                   flavors, rbacVars, secretVars, alembic>>

(* get_run(pipeline_run.id), the except branch *)
get_or_create_run_by_id(c) ==
    /\ callers[c].pc = "get_run_by_id"
    /\ LET found == get_schema_by_name_or_id(UuidText(callers[c].arg.id), runs) IN
         IF found = {}
         THEN callers' = [callers EXCEPT ![c] =
                  [@ EXCEPT !.pc = "get_run_by_name", !.reads = @ + 1]]
         ELSE \E x \in found :
                callers' = [callers EXCEPT ![c] =
                  [@ EXCEPT !.pc = "done", !.reads = @ + 1, !.ret = x.id]]
    /\ UNCHANGED <<users, projects, stacks, components, last, pipelines, runs, stepVars,
                   flavors, rbacVars, secretVars, alembic>>

(* get_run(pipeline_run.name), the inner except branch: its KeyError is   *)
(* raised to the caller                                                   *)
get_or_create_run_by_name(c) ==
    /\ callers[c].pc = "get_run_by_name"
    /\ LET found == get_schema_by_name_or_id(callers[c].arg.name, runs) IN
         IF found = {}
         THEN callers' = [callers EXCEPT ![c] =
                  [@ EXCEPT !.pc = "done", !.reads = @ + 1, !.err = KeyError]]
         ELSE \E x \in found :
                callers' = [callers EXCEPT ![c] =
                  [@ EXCEPT !.pc = "done", !.reads = @ + 1, !.ret = x.id]]
    /\ UNCHANGED <<users, projects, stacks, components, last, pipelines, runs, stepVars,
                   flavors, rbacVars, secretVars, alembic>>

(* ----------------------- artifacts and step runs ---------------------- *)

(* create_artifact: no check is made; the id is the primary key *)
create_artifact_outcome(artifact) ==
    IF ~Missing(artifacts, artifact.id)
    THEN Result("create_artifact", IntegrityError, "id")
    ELSE Ok("create_artifact")

create_artifact(artifact) ==
    /\ last' = create_artifact_outcome(artifact)
    /\ artifacts' = IF last'.err = NoError THEN artifacts \cup {artifact} ELSE artifacts
    /\ UNCHANGED <<users, projects, stacks, components, runVars, steps,
                   step_parents, step_input_artifacts, step_output_artifacts,
                   flavors, rbacVars, secretVars, alembic>>

(* What one database session sees: the committed rows and the rows the    *)
(* session has added (a query flushes them first), and the exception      *)
(* raised in it, if any.                                                  *)
OpenSession ==
    [steps |-> steps, step_parents |-> step_parents,
     step_input_artifacts |-> step_input_artifacts,
     step_output_artifacts |-> step_output_artifacts,
     err |-> NoError, why |-> ""]

Raise(session, err, why) == [session EXCEPT !.err = err, !.why = why]

(* the step row create_run_step adds *)
step_from_create_model(step_run) ==
    [id |-> step_run.id, name |-> step_run.name,
     pipeline_run_id |-> step_run.pipeline_run_id, status |-> step_run.status]

(* session.add(step_schema): the id is the primary key, so the flush of a *)
(* second row of the id fails                                             *)
add_step(step_run, session) ==
    IF ~Missing(session.steps, step_run.id) THEN Raise(session, IntegrityError, "id")
    ELSE [session EXCEPT !.steps = @ \cup {step_from_create_model(step_run)}]

set_run_step_parent_step(child_id, parent_id, session) ==
    IF Missing(session.steps, child_id) THEN Raise(session, KeyError, "child")
    ELSE IF Missing(session.steps, parent_id) THEN Raise(session, KeyError, "parent")
    ELSE IF \E a \in session.step_parents :
                a.child_id = child_id /\ a.parent_id = parent_id
    THEN session
    ELSE [session EXCEPT !.step_parents =
              @ \cup {[child_id |-> child_id, parent_id |-> parent_id]}]

set_run_step_input_artifact(run_step_id, artifact_id, name, session) ==
    IF Missing(session.steps, run_step_id) THEN Raise(session, KeyError, "step")
    ELSE IF Missing(artifacts, artifact_id) THEN Raise(session, KeyError, "input")
    ELSE IF \E a \in session.step_input_artifacts :
                a.step_run_id = run_step_id /\ a.artifact_id = artifact_id
    THEN session
    ELSE [session EXCEPT !.step_input_artifacts =
              @ \cup {[step_run_id |-> run_step_id, artifact_id |-> artifact_id,
                       name |-> name]}]

(* variant: the stored assignment is not looked up before the insert, so *)
(* a second row of the step and artifact is refused by the table          *)
set_run_step_output_artifact_unchecked(step_run_id, artifact_id, name, session) ==
    IF Missing(session.steps, step_run_id) THEN Raise(session, KeyError, "step")
    ELSE IF Missing(artifacts, artifact_id) THEN Raise(session, KeyError, "output")
    ELSE IF \E a \in session.step_output_artifacts :
                a.step_run_id = step_run_id /\ a.artifact_id = artifact_id
    THEN Raise(session, IntegrityError, "output")
    ELSE [session EXCEPT !.step_output_artifacts =
              @ \cup {[step_run_id |-> step_run_id, artifact_id |-> artifact_id,
                       name |-> name]}]

set_run_step_output_artifact(step_run_id, artifact_id, name, session) ==
    IF Missing(session.steps, step_run_id) THEN Raise(session, KeyError, "step")
    ELSE IF Missing(artifacts, artifact_id) THEN Raise(session, KeyError, "output")
    ELSE IF \E a \in session.step_output_artifacts :
                a.step_run_id = step_run_id /\ a.artifact_id = artifact_id
    THEN session
    ELSE [session EXCEPT !.step_output_artifacts =
              @ \cup {[step_run_id |-> step_run_id, artifact_id |-> artifact_id,
                       name |-> name]}]

(* the three loops of create_run_step; an exception ends the loop *)
RECURSIVE save_parent_steps(_, _, _)
save_parent_steps(child_id, parent_step_ids, session) ==
    IF session.err # NoError \/ parent_step_ids = <<>> THEN session
    ELSE save_parent_steps(child_id, Tail(parent_step_ids),
             set_run_step_parent_step(child_id, Head(parent_step_ids), session))

RECURSIVE save_input_artifacts(_, _, _)
save_input_artifacts(run_step_id, input_artifacts, session) ==
    IF session.err # NoError \/ input_artifacts = <<>> THEN session
    ELSE save_input_artifacts(run_step_id, Tail(input_artifacts),
             set_run_step_input_artifact(run_step_id, Head(input_artifacts).artifact_id,
                                         Head(input_artifacts).name, session))

RECURSIVE save_output_artifacts(_, _, _)
save_output_artifacts(step_run_id, output_artifacts, session) ==
    IF session.err # NoError \/ output_artifacts = <<>> THEN session
    ELSE save_output_artifacts(step_run_id, Tail(output_artifacts),
             set_run_step_output_artifact(step_run_id, Head(output_artifacts).artifact_id,
                                          Head(output_artifacts).name, session))

(* variant: the step is looked up by its id, not by its name and run *)
existing_step_run_by_id(step_run, rows) ==
    {x \in rows : x.id = step_run.id}

(* the stored steps of the payload's name in the payload's run *)
existing_step_run(step_run, rows) ==
    {x \in rows : /\ x.name = step_run.name
                  /\ x.pipeline_run_id = step_run.pipeline_run_id}

(* the session of create_run_step as it is when the handler leaves it *)
create_run_step_session(step_run) ==
    IF Missing(runs, step_run.pipeline_run_id)
    THEN Raise(OpenSession, KeyError, "run")
    ELSE IF existing_step_run(step_run, steps) # {}
    THEN Raise(OpenSession, EntityExistsError, "name")
    ELSE save_output_artifacts(step_run.id, step_run.output_artifacts,
           save_input_artifacts(step_run.id, step_run.input_artifacts,
             save_parent_steps(step_run.id, step_run.parent_step_ids,
               add_step(step_run, OpenSession))))

create_run_step_outcome(step_run) ==
    LET session == create_run_step_session(step_run) IN
    IF session.err # NoError THEN Result("create_run_step", session.err, session.why)
    ELSE [Ok("create_run_step") EXCEPT !.ret = step_run.id]

(* variant: what the session added before the exception is stored *)
create_run_step_partial(step_run) ==
    LET session == create_run_step_session(step_run) IN
    /\ last' = create_run_step_outcome(step_run)
    /\ steps' = session.steps
    /\ step_parents' = session.step_parents
    /\ step_input_artifacts' = session.step_input_artifacts
    /\ step_output_artifacts' = session.step_output_artifacts
    /\ UNCHANGED <<users, projects, stacks, components, runVars, artifacts,
                   flavors, rbacVars, secretVars, alembic>>

(* session.commit() stores what the session added; leaving the session on *)
(* an exception stores none of it                                         *)
create_run_step(step_run) ==
    LET session == create_run_step_session(step_run) IN
    /\ last' = create_run_step_outcome(step_run)
    /\ IF session.err = NoError
       THEN /\ steps' = session.steps
            /\ step_parents' = session.step_parents
            /\ step_input_artifacts' = session.step_input_artifacts
            /\ step_output_artifacts' = session.step_output_artifacts
       ELSE UNCHANGED <<steps, step_parents, step_input_artifacts,
                        step_output_artifacts>>
    /\ UNCHANGED <<users, projects, stacks, components, runVars, artifacts,
                   flavors, rbacVars, secretVars, alembic>>

(* the row update_run_step writes: the payload's status on the stored row *)
step_from_update_model(existing, step_run) ==
    [existing EXCEPT !.status = step_run.status]

(* variant: the payload's parent ids and input artifacts are saved too *)
update_run_step_session_all_edges(step_run) ==
    IF Missing(steps, step_run.id) THEN Raise(OpenSession, KeyError, "step")
    ELSE save_output_artifacts(step_run.id, step_run.output_artifacts,
           save_input_artifacts(step_run.id, step_run.input_artifacts,
             save_parent_steps(step_run.id, step_run.parent_step_ids,
               [OpenSession EXCEPT !.steps =
                   {IF x.id = step_run.id THEN [x EXCEPT !.status = step_run.status] ELSE x
                       : x \in steps}])))

(* variant: the stored outputs of the step give way to the payload's *)
update_run_step_session_replacing_outputs(step_run) ==
    IF Missing(steps, step_run.id) THEN Raise(OpenSession, KeyError, "step")
    ELSE save_output_artifacts(step_run.id, step_run.output_artifacts,
           [OpenSession EXCEPT
               !.steps = {IF x.id = step_run.id THEN step_from_update_model(x, step_run)
                          ELSE x : x \in steps},
               !.step_output_artifacts = {a \in @ : a.step_run_id # step_run.id}])

(* the session of update_run_step as it is when the handler leaves it *)
update_run_step_session(step_run) ==
    IF Missing(steps, step_run.id) THEN Raise(OpenSession, KeyError, "step")
    ELSE save_output_artifacts(step_run.id, step_run.output_artifacts,
           [OpenSession EXCEPT !.steps =
               {IF x.id = step_run.id THEN step_from_update_model(x, step_run) ELSE x
                   : x \in steps}])

update_run_step_outcome(step_run) ==
    LET session == update_run_step_session(step_run) IN
    IF session.err # NoError THEN Result("update_run_step", session.err, session.why)
    ELSE [Ok("update_run_step") EXCEPT !.ret = step_run.id]

update_run_step(step_run) ==
    LET session == update_run_step_session(step_run) IN
    /\ last' = update_run_step_outcome(step_run)
    /\ IF session.err = NoError
       THEN /\ steps' = session.steps
            /\ step_output_artifacts' = session.step_output_artifacts
       ELSE UNCHANGED <<steps, step_output_artifacts>>
    /\ UNCHANGED <<users, projects, stacks, components, runVars, artifacts,
                   step_parents, step_input_artifacts,
                   flavors, rbacVars, secretVars, alembic>>

(* _run_step_schema_to_model on the tables of a session: the parents    *)
(* that are stored steps, and the dicts {name: artifact_id} built from   *)
(* the input rows and the output rows of the step.  Of the rows of one   *)
(* name a dict keeps the one read last, and the queries have no order,   *)
(* so the result is the set of the models the call can return.           *)
run_step_schema_to_model(step_run, tables) ==
    LET dicts(rows) ==
            {d \in SUBSET {[name |-> r.name, artifact_id |-> r.artifact_id] : r \in rows} :
                /\ \A x, y \in d : x.name = y.name => x = y
                /\ \A r \in rows : \E x \in d : x.name = r.name}
    IN  {[id |-> step_run.id, name |-> step_run.name,
          pipeline_run_id |-> step_run.pipeline_run_id, status |-> step_run.status,
          parent_step_ids |-> {a.parent_id : a \in {b \in tables.step_parents :
                                   b.child_id = step_run.id /\ ~Missing(tables.steps, b.parent_id)}},
          input_artifacts |-> i, output_artifacts |-> o]
           : i \in dicts({r \in tables.step_input_artifacts : r.step_run_id = step_run.id}),
             o \in dicts({r \in tables.step_output_artifacts : r.step_run_id = step_run.id})}

(* the models get_run_step can return for the id on the tables; none     *)
(* when it raises KeyError                                                *)
get_run_step_models(step_run_id, tables) ==
    UNION {run_step_schema_to_model(x, tables) : x \in ById(tables.steps, step_run_id)}

(* the model update_run_step returns: existing_step_run.to_model with   *)
(* the parent ids, inputs and outputs of the payload                     *)
update_run_step_model(step_run, tables) ==
    {[id |-> x.id, name |-> x.name, pipeline_run_id |-> x.pipeline_run_id,
      status |-> x.status,
      parent_step_ids |-> Range(step_run.parent_step_ids),
      input_artifacts |-> Range(step_run.input_artifacts),
      output_artifacts |-> Range(step_run.output_artifacts)]
        : x \in ById(tables.steps, step_run.id)}

get_run_step(step_run_id) ==
    /\ last' = IF Missing(steps, step_run_id) THEN Result("get_run_step", KeyError, "step")
               ELSE [Ok("get_run_step") EXCEPT !.ret = step_run_id]
    /\ UNCHANGED <<users, projects, stacks, components, runVars, stepVars,
                   flavors, rbacVars, secretVars, alembic>>

(* variant: the status of the step is not compared *)
producer_edges_of_any_status(artifact_id) ==
    {e \in step_output_artifacts :
        /\ e.artifact_id = artifact_id
        /\ \E x \in steps : x.id = e.step_run_id}

(* get_artifact_producer_step: the output edges of the artifact whose     *)
(* step is not cached; first() returns one of them, in no stated order    *)
producer_edges(artifact_id) ==
    {e \in step_output_artifacts :
        /\ e.artifact_id = artifact_id
        /\ \E x \in steps : x.id = e.step_run_id /\ x.status # CACHED}

(* what the call may return or raise; get_run_step of the edge's step     *)
(* raises KeyError when the step is not stored                            *)
get_artifact_producer_step_outcomes(artifact_id) ==
    IF producer_edges(artifact_id) = {}
    THEN {Result("get_artifact_producer_step", KeyError, "producer")}
    ELSE {IF Missing(steps, e.step_run_id)
          THEN Result("get_artifact_producer_step", KeyError, "step")
          ELSE [Ok("get_artifact_producer_step") EXCEPT !.ret = e.step_run_id]
            : e \in producer_edges(artifact_id)}

get_artifact_producer_step(artifact_id) ==
    /\ last' \in get_artifact_producer_step_outcomes(artifact_id)
    /\ UNCHANGED <<users, projects, stacks, components, runVars, stepVars,
                   flavors, rbacVars, secretVars, alembic>>

(* ------------------------------- secrets ------------------------------ *)

(* Text is a sequence of code points, bytes a sequence of 0..255, the     *)
(* output of base64 a sequence of the symbols 0..63 and the pad 64.  A    *)
(* Dict[str, str] is the sequence of its items in insertion order, with   *)
(* distinct keys.                                                         *)
ValueError == "ValueError"
InvalidCiphertextError == "InvalidCiphertextError"

(* the capacity of the values column, scaled to the mappings of the model *)
TEXT_FIELD_MAX_LENGTH == 32

(* variant: a character is written as it is *)
json_escape_nothing(c) == <<c>>

(* json.dumps of one character of a string (ensure_ascii): the quote and *)
(* the backslash get a backslash, what is not printable ASCII becomes     *)
(* \uXXXX                                                                 *)
json_escape(c) ==
    LET HexDigit(n) == IF n < 10 THEN 48 + n ELSE 87 + n
    IN  IF c \in {34, 92} THEN <<92, c>>
        ELSE IF c < 32 \/ c > 126
        THEN <<92, 117, HexDigit(c \div 4096), HexDigit((c \div 256) % 16),
               HexDigit((c \div 16) % 16), HexDigit(c % 16)>>
        ELSE <<c>>

(* json.dumps(values): {"key": "value", ...} *)
json_dumps(values) ==
    LET RECURSIVE escaped(_)
        escaped(text) ==
            IF text = <<>> THEN <<>> ELSE json_escape(Head(text)) \o escaped(Tail(text))
        string(text) == <<34>> \o escaped(text) \o <<34>>
        RECURSIVE items(_)
        items(rest) ==
            IF rest = <<>> THEN <<>>
            ELSE string(Head(rest).key) \o <<58, 32>> \o string(Head(rest).value)
                   \o (IF Tail(rest) = <<>> THEN <<>> ELSE <<44, 32>> \o items(Tail(rest)))
    IN  <<123>> \o items(values) \o <<125>>

(* json.loads of an object of strings: the error raised (JSONDecodeError  *)
(* is a ValueError) or the dict read; spaces are skipped between tokens,  *)
(* a string runs to the next quote that is not escaped, and \", \\ and    *)
(* \uXXXX are the escapes read                                            *)
json_loads(text) ==
    LET n == Len(text)
        HexValue(c) ==
            IF c \in 48..57 THEN c - 48
            ELSE IF c \in 97..102 THEN c - 87
            ELSE IF c \in 65..70 THEN c - 55
            ELSE -1
        dict_set(values, key, value) ==
            IF \E i \in DOMAIN values : values[i].key = key
            THEN [i \in DOMAIN values |->
                    IF values[i].key = key THEN [key |-> key, value |-> value]
                    ELSE values[i]]
            ELSE Append(values, [key |-> key, value |-> value])
        Fail == [err |-> ValueError, value |-> <<>>]
        NoString == [ok |-> FALSE, text |-> <<>>, next |-> n + 1]
        RECURSIVE skip(_)
        skip(i) == IF i <= n /\ text[i] = 32 THEN skip(i + 1) ELSE i
        RECURSIVE scan(_, _)
        scan(i, read) ==
            IF i > n THEN NoString
            ELSE IF text[i] = 34 THEN [ok |-> TRUE, text |-> read, next |-> i + 1]
            ELSE IF text[i] # 92 THEN scan(i + 1, Append(read, text[i]))
            ELSE IF i + 1 > n THEN NoString
            ELSE IF text[i + 1] \in {34, 92} THEN scan(i + 2, Append(read, text[i + 1]))
            ELSE IF /\ text[i + 1] = 117
                    /\ i + 5 <= n
                    /\ \A j \in 2..5 : HexValue(text[i + j]) >= 0
            THEN scan(i + 6, Append(read, 4096 * HexValue(text[i + 2])
                                            + 256 * HexValue(text[i + 3])
                                            + 16 * HexValue(text[i + 4])
                                            + HexValue(text[i + 5])))
            ELSE NoString
        string(i) == IF i <= n /\ text[i] = 34 THEN scan(i + 1, <<>>) ELSE NoString
        RECURSIVE items(_, _)
        items(i, read) ==
            LET key == string(i)
                colon == skip(key.next)
                value == string(skip(colon + 1))
                after == skip(value.next)
            IN  IF ~key.ok \/ colon > n THEN Fail
                ELSE IF text[colon] # 58 \/ ~value.ok \/ after > n THEN Fail
                ELSE IF text[after] = 44
                THEN items(skip(after + 1), dict_set(read, key.text, value.text))
                ELSE IF text[after] = 125 /\ skip(after + 1) > n
                THEN [err |-> NoError, value |-> dict_set(read, key.text, value.text)]
                ELSE Fail
        open == skip(1)
        first == skip(open + 1)
    IN  IF open > n THEN Fail
        ELSE IF text[open] # 123 \/ first > n THEN Fail
        ELSE IF text[first] = 125
        THEN (IF skip(first + 1) > n THEN [err |-> NoError, value |-> <<>>] ELSE Fail)
        ELSE items(first, <<>>)

(* str.encode("utf-8") *)
RECURSIVE utf8_encode(_)
utf8_encode(text) ==
    IF text = <<>> THEN <<>>
    ELSE (IF Head(text) < 128 THEN <<Head(text)>>
          ELSE <<192 + (Head(text) \div 64), 128 + (Head(text) % 64)>>)
           \o utf8_encode(Tail(text))

(* bytes.decode(): the text, or UnicodeDecodeError (a ValueError) *)
RECURSIVE utf8_decode(_)
utf8_decode(bytes) ==
    IF bytes = <<>> THEN [err |-> NoError, value |-> <<>>]
    ELSE IF bytes[1] < 128
    THEN LET rest == utf8_decode(Tail(bytes))
         IN  [err |-> rest.err, value |-> <<bytes[1]>> \o rest.value]
    ELSE IF bytes[1] \in 194..223 /\ Len(bytes) >= 2 /\ bytes[2] \in 128..191
    THEN LET rest == utf8_decode(Tail(Tail(bytes)))
         IN  [err |-> rest.err,
              value |-> <<(bytes[1] - 192) * 64 + (bytes[2] - 128)>> \o rest.value]
    ELSE [err |-> ValueError, value |-> <<>>]

(* base64.b64encode: three bytes make four symbols, the last group is    *)
(* padded                                                                 *)
RECURSIVE b64encode(_)
b64encode(bytes) ==
    IF bytes = <<>> THEN <<>>
    ELSE IF Len(bytes) = 1
    THEN <<bytes[1] \div 4, (bytes[1] % 4) * 16, 64, 64>>
    ELSE IF Len(bytes) = 2
    THEN <<bytes[1] \div 4, (bytes[1] % 4) * 16 + (bytes[2] \div 16),
           (bytes[2] % 16) * 4, 64>>
    ELSE <<bytes[1] \div 4, (bytes[1] % 4) * 16 + (bytes[2] \div 16),
           (bytes[2] % 16) * 4 + (bytes[3] \div 64), bytes[3] % 64>>
           \o b64encode(SubSeq(bytes, 4, Len(bytes)))

(* base64.b64decode: the bytes, or binascii.Error (a ValueError) *)
RECURSIVE b64decode(_)
b64decode(symbols) ==
    IF symbols = <<>> THEN [err |-> NoError, value |-> <<>>]
    ELSE IF Len(symbols) < 4 \/ symbols[1] = 64 \/ symbols[2] = 64
    THEN [err |-> ValueError, value |-> <<>>]
    ELSE IF symbols[3] = 64
    THEN (IF symbols[4] = 64 /\ Len(symbols) = 4
          THEN [err |-> NoError, value |-> <<symbols[1] * 4 + (symbols[2] \div 16)>>]
          ELSE [err |-> ValueError, value |-> <<>>])
    ELSE IF symbols[4] = 64
    THEN (IF Len(symbols) = 4
          THEN [err |-> NoError,
                value |-> <<symbols[1] * 4 + (symbols[2] \div 16),
                            (symbols[2] % 16) * 16 + (symbols[3] \div 4)>>]
          ELSE [err |-> ValueError, value |-> <<>>])
    ELSE LET rest == b64decode(SubSeq(symbols, 5, Len(symbols)))
         IN  [err |-> rest.err,
              value |-> <<symbols[1] * 4 + (symbols[2] \div 16),
                          (symbols[2] % 16) * 16 + (symbols[3] \div 4),
                          (symbols[3] % 4) * 64 + symbols[4]>> \o rest.value]

(* AesGcmEngine, scaled: a one-byte nonce, the bytes of the text shifted  *)
(* by key and nonce, and a one-byte tag, all in base64; a None engine is   *)
(* None, an engine is its key                                             *)
aes_tag(key, nonce, cipher) == (31 * key + 7 * nonce + Len(cipher)) % 256

encrypt(key, nonce, text) ==
    LET plain == utf8_encode(text)
        cipher == [i \in DOMAIN plain |-> (plain[i] + key + nonce) % 256]
    IN  b64encode(<<nonce>> \o cipher \o <<aes_tag(key, nonce, cipher)>>)

decrypt(key, symbols) ==
    LET decoded == b64decode(symbols)
        bytes == decoded.value
        cipher == SubSeq(bytes, 2, Len(bytes) - 1)
        plain == [i \in DOMAIN cipher |-> (cipher[i] + 512 - key - bytes[1]) % 256]
    IN  IF decoded.err # NoError \/ Len(bytes) < 2
        THEN [err |-> InvalidCiphertextError, value |-> <<>>]
        ELSE IF bytes[Len(bytes)] # aes_tag(key, bytes[1], cipher)
        THEN [err |-> InvalidCiphertextError, value |-> <<>>]
        ELSE utf8_decode(plain)

(* variant: a blob that fills the column is refused *)
dump_secret_values_below_capacity(values, encryption_engine, nonce) ==
    LET serialized_values == json_dumps(values)
        encrypted_values ==
            IF encryption_engine = None THEN b64encode(utf8_encode(serialized_values))
            ELSE encrypt(encryption_engine, nonce, serialized_values)
    IN  IF Len(encrypted_values) >= TEXT_FIELD_MAX_LENGTH
        THEN [err |-> ValueError, value |-> <<>>]
        ELSE [err |-> NoError, value |-> encrypted_values]

(* _dump_secret_values: the error raised, or the blob *)
dump_secret_values(values, encryption_engine, nonce) ==
    LET serialized_values == json_dumps(values)
        encrypted_values ==
            IF encryption_engine = None THEN b64encode(utf8_encode(serialized_values))
            ELSE encrypt(encryption_engine, nonce, serialized_values)
    IN  IF Len(encrypted_values) > TEXT_FIELD_MAX_LENGTH
        THEN [err |-> ValueError, value |-> <<>>]
        ELSE [err |-> NoError, value |-> encrypted_values]

(* _load_secret_values: the error raised, or the dict *)
load_secret_values(encrypted_values, encryption_engine) ==
    LET decoded == b64decode(encrypted_values)
        serialized_values ==
            IF encryption_engine # None THEN decrypt(encryption_engine, encrypted_values)
            ELSE IF decoded.err # NoError THEN decoded
            ELSE utf8_decode(decoded.value)
    IN  IF serialized_values.err # NoError
        THEN [err |-> serialized_values.err, value |-> <<>>]
        ELSE json_loads(serialized_values.value)

(* secret_call[id] is the last set_secret_values that stored a blob in   *)
(* the secret id: its engine and its mapping (the empty set before the   *)
(* first one)                                                             *)
NoSecretCall == [encryption_engine |-> None, secret_values |-> {}]

(* SecretSchema.from_request: the row has no values *)
from_request(secret) ==
    /\ Missing(secrets, secret.id)
    /\ secrets' = secrets \cup
         {[id |-> secret.id, name |-> secret.name, scope |-> secret.scope, values |-> {}]}
    /\ last' = [Ok("from_request") EXCEPT !.ret = secret.id]
    /\ UNCHANGED <<users, projects, stacks, components, runVars, stepVars, flavors,
                   rbacVars, secret_call, alembic>>

(* variant: the values of the update are stored with the other fields *)
secret_after_update_with_values(row, secret_update) ==
    [row EXCEPT !.name = IF secret_update.name = {} THEN @
                         ELSE CHOOSE x \in secret_update.name : TRUE,
                !.scope = IF secret_update.scope = {} THEN @
                          ELSE CHOOSE x \in secret_update.scope : TRUE,
                !.values = IF secret_update.values = {} THEN @
                           ELSE {dump_secret_values(v, None, 0).value
                                   : v \in secret_update.values}]

(* SecretSchema.update: the fields of the update that are set, values     *)
(* excluded, are written to the row (a field that is unset is the empty   *)
(* set)                                                                   *)
secret_after_update(row, secret_update) ==
    [row EXCEPT !.name = IF secret_update.name = {} THEN @
                         ELSE CHOOSE x \in secret_update.name : TRUE,
                !.scope = IF secret_update.scope = {} THEN @
                          ELSE CHOOSE x \in secret_update.scope : TRUE]

update(secret_id, secret_update) ==
    /\ \E row \in ById(secrets, secret_id) :
         secrets' = (secrets \ {row}) \cup {secret_after_update(row, secret_update)}
    /\ last' = [Ok("update") EXCEPT
                  !.ret = secret_id,
                  !.why = IF secret_update.values = {} THEN "" ELSE "values"]
    /\ UNCHANGED <<users, projects, stacks, components, runVars, stepVars, flavors,
                   rbacVars, secret_call, alembic>>

(* get_secret_values: KeyError when the row has no values or empty ones *)
get_secret_values_outcome(row, encryption_engine) ==
    IF row.values = {} \/ row.values = {<<>>}
    THEN [err |-> KeyError, value |-> <<>>]
    ELSE load_secret_values(CHOOSE x \in row.values : TRUE, encryption_engine)

get_secret_values(secret_id, encryption_engine) ==
    /\ \E row \in ById(secrets, secret_id) :
         last' = [Result("get_secret_values",
                         get_secret_values_outcome(row, encryption_engine).err, "")
                    EXCEPT !.ret = secret_id]
    /\ UNCHANGED <<users, projects, stacks, components, runVars, stepVars, flavors,
                   rbacVars, secretVars, alembic>>

(* set_secret_values: the blob is assigned only when the dump returns *)
set_secret_values(secret_id, secret_values, encryption_engine, nonce) ==
    /\ \E row \in ById(secrets, secret_id) :
         LET dumped == dump_secret_values(secret_values, encryption_engine, nonce)
         IN  /\ last' = [Result("set_secret_values", dumped.err, "") EXCEPT
                           !.ret = secret_id]
             /\ IF dumped.err # NoError
                THEN UNCHANGED <<secrets, secret_call, alembic>>
                ELSE /\ secrets' = (secrets \ {row})
                                     \cup {[row EXCEPT !.values = {dumped.value}]}
                     /\ secret_call' =
                          [secret_call EXCEPT ![secret_id] =
                              [encryption_engine |-> encryption_engine,
                               secret_values |-> {secret_values}]]
    /\ UNCHANGED <<users, projects, stacks, components, runVars, stepVars, flavors,
                   rbacVars, alembic>>

(* ------------------ role calls, commit by commit ---------------------- *)

(* RoleSchema.to_model as get_role returns it: the name of the role and  *)
(* the names of its permissions; the empty set when no role has the id   *)
role_to_model(role_id) ==
    {[name |-> x.name,
      permissions |-> {p.name : p \in {q \in role_permissions : q.role_id = role_id}}]
        : x \in ById(roles, role_id)}

(* a call of create_role or update_role by a caller: its position, its   *)
(* payload, the role as get_role returned it when the call began, the    *)
(* session.commit() calls made and the exception raised                  *)
RoleCall(pc, op, role, commits, err) ==
    [pc |-> pc, op |-> op, arg |-> role, before |-> role_to_model(role.id),
     commits |-> commits, err |-> err]

(* create_role up to its first session.commit(): the name check and the  *)
(* role row                                                               *)
create_role_commit_role(c, role) ==
    /\ \A d \in Callers : callers[d].pc \in {"idle", "done"}
    /\ LET out == create_role_outcome(role) IN
         IF out.err # NoError
         THEN /\ callers' = [callers EXCEPT ![c] =
                                RoleCall("done", "create_role", role, 0, out.err)]
              /\ UNCHANGED roles
         ELSE /\ callers' = [callers EXCEPT ![c] =
                                RoleCall("permissions", "create_role", role, 1, NoError)]
              /\ roles' = roles \cup {[id |-> role.id, name |-> role.name]}
    /\ UNCHANGED <<users, projects, stacks, components, last, pipelines, runs, stepVars,
                   flavors, teams, role_permissions, user_role_assignments,
                   team_role_assignments, secretVars, alembic>>

(* create_role from there: the permission rows and the second commit *)
create_role_commit_permissions(c) ==
    /\ callers[c].pc = "permissions"
    /\ callers[c].op = "create_role"
    /\ role_permissions' = role_permissions
                             \cup permissions_of(callers[c].arg.id, callers[c].arg.permissions)
    /\ callers' = [callers EXCEPT ![c] = [@ EXCEPT !.pc = "done", !.commits = @ + 1]]
    /\ UNCHANGED <<users, projects, stacks, components, last, pipelines, runs, stepVars,
                   flavors, teams, roles, user_role_assignments,
                   team_role_assignments, secretVars, alembic>>

(* update_role up to its first session.commit(): the checks and the row  *)
(* with the payload's name                                                *)
update_role_commit_role(c, role) ==
    /\ \A d \in Callers : callers[d].pc \in {"idle", "done"}
    /\ LET out == update_role_outcome(role) IN
         IF out.err # NoError
         THEN /\ callers' = [callers EXCEPT ![c] =
                                RoleCall("done", "update_role", role, 0, out.err)]
              /\ UNCHANGED roles
         ELSE /\ callers' = [callers EXCEPT ![c] =
                                RoleCall("permissions", "update_role", role, 1, NoError)]
              /\ roles' = {IF x.id = role.id THEN role_from_update_model(x, role) ELSE x
                              : x \in roles}
    /\ UNCHANGED <<users, projects, stacks, components, last, pipelines, runs, stepVars,
                   flavors, teams, role_permissions, user_role_assignments,
                   team_role_assignments, secretVars, alembic>>

(* update_role from there: the permissions are read again, the symmetric *)
(* difference is deleted or added, and the second commit                 *)
update_role_commit_permissions(c) ==
    /\ callers[c].pc = "permissions"
    /\ callers[c].op = "update_role"
    /\ LET role == callers[c].arg IN
         role_permissions' =
             {p \in role_permissions : p.role_id # role.id \/ p.name \in role.permissions}
                 \cup permissions_of(role.id, role.permissions)
    /\ callers' = [callers EXCEPT ![c] = [@ EXCEPT !.pc = "done", !.commits = @ + 1]]
    /\ UNCHANGED <<users, projects, stacks, components, last, pipelines, runs, stepVars,
                   flavors, teams, roles, user_role_assignments,
                   team_role_assignments, secretVars, alembic>>

(* ---------------- update_run_step, session and commit ----------------- *)

(* update_run_step up to session.commit(): the step is looked up, the    *)
(* row is updated and the outputs that are not stored are added to the   *)
(* session; an exception ends the call                                    *)
update_run_step_call(c, step_run) ==
    /\ callers[c].pc \in {"idle", "done"}
    /\ LET session == update_run_step_session(step_run) IN
         callers' = [callers EXCEPT ![c] =
             [pc |-> IF session.err = NoError THEN "commit" ELSE "done",
              op |-> "update_run_step", arg |-> step_run,
              added |-> session.step_output_artifacts \ step_output_artifacts,
              err |-> session.err]]
    /\ UNCHANGED <<users, projects, stacks, components, last, pipelines, runs, stepVars,
                   flavors, rbacVars, secretVars, alembic>>

(* the rows of the session that the table of output artifacts refuses:   *)
(* the step and the artifact are its primary key                          *)
refused_output_artifacts(added) ==
    {a \in added : \E b \in step_output_artifacts :
                      b.step_run_id = a.step_run_id /\ b.artifact_id = a.artifact_id}

(* session.commit(): the rows are written, or none when one is refused *)
update_run_step_commit(c) ==
    /\ callers[c].pc = "commit"
    /\ callers[c].op = "update_run_step"
    /\ IF refused_output_artifacts(callers[c].added) # {}
       THEN /\ callers' = [callers EXCEPT ![c] =
                              [@ EXCEPT !.pc = "done", !.err = IntegrityError]]
            /\ UNCHANGED <<steps, step_output_artifacts>>
       ELSE /\ callers' = [callers EXCEPT ![c] = [@ EXCEPT !.pc = "done"]]
            /\ steps' = {IF x.id = callers[c].arg.id
                         THEN step_from_update_model(x, callers[c].arg) ELSE x : x \in steps}
            /\ step_output_artifacts' = step_output_artifacts \cup callers[c].added
    /\ UNCHANGED <<users, projects, stacks, components, last, pipelines, runs, artifacts,
                   step_parents, step_input_artifacts,
                   flavors, rbacVars, secretVars, alembic>>

(* ------------------------ database migration -------------------------- *)

ZENML_ALEMBIC_START_REVISION == "alembic_start"
HEAD == "head"

(* the calls migrate_database makes on the Alembic wrapper *)
StampCall == [name |-> "stamp", revision |-> ZENML_ALEMBIC_START_REVISION]
UpgradeCall == [name |-> "upgrade", revision |-> HEAD]

(* `alembic` holds the database as the Alembic wrapper sees it            *)
(* (current_revisions, db_is_empty), the alembic logger (handlers, level) *)
(* and the running migrate_database call: its position pc, its local     *)
(* revisions, the calls it has made, whether it warned, and called_on,   *)
(* the database as the call found it.  Migrated is the store after       *)
(* _initialize ran migrate_database on an empty database.                 *)
Migrated ==
    [pc |-> "done", current_revisions |-> {HEAD}, db_is_empty |-> FALSE,
     handlers |-> 1, level |-> "WARNING", revisions |-> {},
     called_on |-> [current_revisions |-> {}, db_is_empty |-> TRUE],
     calls |-> <<UpgradeCall>>, warned |-> FALSE]

(* variant: one recorded revision does not count as migrated *)
has_been_migrated_strictly(revisions) == Cardinality(revisions) > 1

(* len(revisions) >= 1 *)
has_been_migrated(revisions) == Cardinality(revisions) >= 1

(* migrate_database up to current_revisions(): the handlers of the        *)
(* alembic logger are replaced by the console handler, its level is set   *)
(* from the logging level, the revisions are read                         *)
migrate_database(logging_level) ==
    /\ alembic.pc \in {"idle", "done"}
    /\ alembic' = [alembic EXCEPT
                     !.pc = IF has_been_migrated(alembic.current_revisions)
                            THEN "migrated" ELSE "unmigrated",
                     !.handlers = 1,
                     !.level = IF logging_level = "DEBUG" THEN "DEBUG" ELSE "WARNING",
                     !.revisions = alembic.current_revisions,
                     !.called_on = [current_revisions |-> alembic.current_revisions,
                                    db_is_empty |-> alembic.db_is_empty],
                     !.calls = <<>>,
                     !.warned = FALSE]
    /\ UNCHANGED storeVars

(* the else branch: self.alembic.db_is_empty() *)
migrate_db_is_empty ==
    /\ alembic.pc = "unmigrated"
    /\ alembic' = [alembic EXCEPT !.pc = IF alembic.db_is_empty THEN "empty" ELSE "legacy"]
    /\ UNCHANGED storeVars

(* case 2: self.alembic.stamp(ZENML_ALEMBIC_START_REVISION) *)
migrate_stamp ==
    /\ alembic.pc = "legacy"
    /\ alembic' = [alembic EXCEPT !.pc = "stamped",
                                  !.current_revisions = {ZENML_ALEMBIC_START_REVISION},
                                  !.calls = Append(@, StampCall)]
    /\ UNCHANGED storeVars

(* self.alembic.upgrade() of the three cases, with the warning of case 3 *)
(* when more than one head is recorded                                   *)
migrate_upgrade ==
    /\ alembic.pc \in {"migrated", "empty", "stamped"}
    /\ alembic' = [alembic EXCEPT !.pc = "done",
                                  !.current_revisions = {HEAD},
                                  !.db_is_empty = FALSE,
                                  !.calls = Append(@, UpgradeCall),
                                  !.warned = alembic.pc = "migrated"
                                               /\ Cardinality(alembic.revisions) > 1]
    /\ UNCHANGED storeVars

(* --------------------------- list operations -------------------------- *)

(* An optional argument that is not given is NoName for a name or a       *)
(* name-or-id, None for an id and the empty set for a flag; an outcome    *)
(* is the error raised, or the rows returned.                             *)
Listed(op, rows) == [op |-> op, err |-> NoError, why |-> "", rows |-> rows]

NotListed(op, why) == [op |-> op, err |-> KeyError, why |-> why, rows |-> {}]

(* list_stacks: the project and the user are resolved when given, which  *)
(* raises KeyError when there is none, and every given filter narrows the *)
(* query                                                                  *)
list_stacks_outcomes(project_name_or_id, user_name_or_id, component_id, name, is_shared) ==
    IF /\ project_name_or_id # NoName
       /\ get_schema_by_name_or_id(project_name_or_id, projects) = {}
    THEN {NotListed("list_stacks", "project")}
    ELSE IF /\ user_name_or_id # NoName
            /\ get_schema_by_name_or_id(user_name_or_id, users) = {}
    THEN {NotListed("list_stacks", "user")}
    ELSE {Listed("list_stacks",
                 {x \in stacks :
                     /\ project_id # None => x.project = project_id
                     /\ user_id # None => x.user = user_id
                     /\ component_id # None => component_id \in x.components
                     /\ name # NoName => x.name = name
                     /\ \A flag \in is_shared : x.is_shared = flag})
            : project_id \in resolved_project_ids(project_name_or_id),
              user_id \in IF user_name_or_id = NoName THEN {None}
                          ELSE {x.id : x \in get_schema_by_name_or_id(user_name_or_id, users)}}

list_stacks(project_name_or_id, user_name_or_id, component_id, name, is_shared) ==
    /\ \E o \in list_stacks_outcomes(project_name_or_id, user_name_or_id,
                                      component_id, name, is_shared) :
          last' = [Result(o.op, o.err, o.why) EXCEPT !.ret = Cardinality(o.rows)]
    /\ UNCHANGED <<users, projects, stacks, components, runVars, stepVars,
                   flavors, rbacVars, secretVars, alembic>>

(* list_runs, called without a project, a user and a component: the      *)
(* unlisted flag is looked at only when no pipeline id is given           *)
list_runs_outcome(stack_id, run_name, pipeline_id, unlisted) ==
    Listed("list_runs",
           {x \in runs :
               /\ stack_id # None => x.stack_id = stack_id
               /\ run_name # NoName => x.name = run_name
               /\ IF pipeline_id # None THEN x.pipeline_id = pipeline_id
                  ELSE unlisted => x.pipeline_id = None})

list_runs(stack_id, run_name, pipeline_id, unlisted) ==
    /\ last' = [Ok("list_runs") EXCEPT
                  !.ret = Cardinality(list_runs_outcome(stack_id, run_name,
                                                        pipeline_id, unlisted).rows)]
    /\ UNCHANGED <<users, projects, stacks, components, runVars, stepVars,
                   flavors, rbacVars, secretVars, alembic>>

(* ------------------------------- inputs ------------------------------- *)

(* StackModel payloads whose component references are drawn from refs *)
StackModels(refs) ==
    [id : StackIds, name : Names, project : ProjectIds, user : UserIds,
     is_shared : BOOLEAN, components : refs]

(* the stacks of the stack specification are built from the two default   *)
(* components, as a stack needs an orchestrator and an artifact store      *)
StackRequests == StackModels({<<1, 2>>})

(* the project and the user a payload names are stored rows; a row's      *)
(* project_id and user_id are foreign keys, so an update payload is drawn *)
(* with existing ones (create_stack and create_stack_component resolve    *)
(* both themselves)                                                       *)
ValidRefs(model) == ~Missing(projects, model.project) /\ ~Missing(users, model.user)

(* a component's type is fixed at creation: an update payload carries the *)
(* stored type                                                            *)
KeepsType(model, rows) == \A x \in ById(rows, model.id) : x.type = model.type

(* ComponentModel payloads of the given names and types *)
ComponentsOfFlavor(names, types, flavor_names) ==
    [id : ComponentIds, name : names, type : types, flavor : flavor_names,
     project : ProjectIds, user : UserIds, is_shared : BOOLEAN]

ComponentModels(names, types) == ComponentsOfFlavor(names, types, {LOCAL_FLAVOR})

ComponentRequests == ComponentModels(Names, {ORCHESTRATOR, CONTAINER_REGISTRY})

(* PipelineRunModel payloads; a run name may itself be the text of a UUID *)
RunNames == {"r1", UuidText(2)}

RunModels(stack_ids, pipeline_ids) ==
    [id : RunIds, name : RunNames, stack_id : stack_ids, pipeline_id : pipeline_ids]

RunRequests == RunModels({None, 2}, {None} \cup PipelineIds)

PipelineRequests == [id : PipelineIds, name : {"p"}, project : {1}]

(* the stack a run of the run specification may name: created in the run  *)
SecondStack ==
    [id |-> 2, name |-> "a", project |-> 1, user |-> 1, is_shared |-> FALSE,
     components |-> <<1, 2>>]

(* the payloads of the composition specification: components 3 and up of *)
(* project 1, and stack 2 of user 1 built from the default components,   *)
(* from other components, or from an empty reference list                 *)
ComposeComponents ==
    {c \in ComponentModels({"a", DEFAULT_STACK_COMPONENT_NAME}, {ORCHESTRATOR}) :
        c.id >= 3 /\ c.project = 1 /\ ~c.is_shared}

ComposeStacks ==
    {s \in StackModels({<<1, 2>>} \cup SeqsUpTo(ComponentIds \ {1, 2}, MaxRefs)) :
        s.id = 2 /\ s.name = "a" /\ s.project = 1 /\ s.user = 1 /\ ~s.is_shared}

(* the payloads of the flavor specification: flavors of project 1 and    *)
(* user 1, and container registries of a flavor name                      *)
FlavorNames == {LOCAL_FLAVOR, "f"}

FlavorRequests ==
    [id : FlavorIds, name : FlavorNames, type : {ORCHESTRATOR, CONTAINER_REGISTRY},
     project : {1}, user : {1}]

FlavorComponents ==
    {c \in ComponentsOfFlavor({"a", "b"}, {CONTAINER_REGISTRY}, FlavorNames) :
        c.id >= 3 /\ c.project = 1 /\ c.user = 1 /\ ~c.is_shared}

ArtifactRequests == [id : ArtifactIds]

StepNames == {"s", "t"}

(* the input_artifacts / output_artifacts mappings of a payload, in the   *)
(* order the handler iterates them: no entry or one                       *)
ArtifactMaps ==
    {<<>>} \cup {<<e>> : e \in [name : {"x"}, artifact_id : ArtifactIds]}

(* two names of a mapping that refer to artifacts, in iteration order *)
DoubleMaps ==
    {<<[name |-> "x", artifact_id |-> a], [name |-> "y", artifact_id |-> b]>> :
        a \in ArtifactIds, b \in ArtifactIds}

(* StepRunModel payloads *)
StepModels(ids, names, run_ids, statuses, parents, inputs, outputs) ==
    [id : ids, name : names, pipeline_run_id : run_ids, status : statuses,
     parent_step_ids : parents, input_artifacts : inputs, output_artifacts : outputs]

StepRequests ==
    StepModels(StepIds, StepNames, RunIds, {RUNNING},
               SeqsUpTo(StepIds, MaxParents), ArtifactMaps, ArtifactMaps)

(* the payloads of the lineage specification: steps of run 1, parent     *)
(* lists that may repeat an id, mappings of two names                    *)
LineageCreates ==
    StepModels(StepIds, StepNames, {1}, {FAILED, CACHED},
               SeqsUpTo(StepIds, MaxParents + 1), ArtifactMaps \cup DoubleMaps,
               ArtifactMaps)

(* update payloads: update_run_step reads the id, the status and the     *)
(* output mapping; the name and the run are carried but not read          *)
LineageUpdates ==
    StepModels(StepIds, {"s"}, {1}, {FAILED, CACHED},
               SeqsUpTo(StepIds, MaxParents), ArtifactMaps,
               ArtifactMaps \cup DoubleMaps)

(* ------------------------------- Init --------------------------------- *)

(* The store after _initialize: the default user and project, and the     *)
(* default stack made of the default orchestrator and artifact store.     *)
DefaultComponents ==
    {[id |-> 1, name |-> DEFAULT_STACK_COMPONENT_NAME, type |-> ORCHESTRATOR,
      flavor |-> LOCAL_FLAVOR, project |-> 1, user |-> 1, is_shared |-> FALSE],
     [id |-> 2, name |-> DEFAULT_STACK_COMPONENT_NAME, type |-> ARTIFACT_STORE,
      flavor |-> LOCAL_FLAVOR, project |-> 1, user |-> 1, is_shared |-> FALSE]}

(* the built-in roles and their permissions; the default user is admin *)
DefaultRoles == {[id |-> 1, name |-> ADMIN_ROLE], [id |-> 2, name |-> GUEST_ROLE]}

DefaultRolePermissions ==
    {[name |-> "read", role_id |-> 1], [name |-> "write", role_id |-> 1],
     [name |-> "read", role_id |-> 2]}

DefaultStacks ==
    {[id |-> 1, name |-> DEFAULT_STACK_NAME, project |-> 1, user |-> 1,
      is_shared |-> FALSE, components |-> {1, 2}]}

InitTables ==
    /\ users = {[id |-> 1, name |-> default_user_name]}
    /\ projects = {[id |-> 1, name |-> default_project_name]}
    /\ components = DefaultComponents
    /\ stacks = DefaultStacks
    /\ last = Ok("init")
    /\ pipelines = {}
    /\ runs = {}
    /\ callers = [c \in Callers |-> IdleCaller]
    /\ artifacts = {}
    /\ steps = {}
    /\ step_parents = {}
    /\ step_input_artifacts = {}
    /\ step_output_artifacts = {}
    /\ flavors = {}
    /\ teams = {}
    /\ roles = DefaultRoles
    /\ role_permissions = DefaultRolePermissions
    /\ user_role_assignments = {[role_id |-> 1, user_id |-> 1, project_id |-> None]}
    /\ team_role_assignments = {}
    /\ secrets = {}
    /\ secret_call = [i \in SecretIds |-> NoSecretCall]

(* the store after construction: _initialize has migrated the database *)
Init == InitTables /\ alembic = Migrated

NextStack ==
    \/ \E n \in {"default", "a"} : create_user(n)
    \/ \E n \in {"default", "a"} : create_project(n)
    \/ \E s \in StackRequests : create_stack(s)
    \/ \E s \in StackRequests : ValidRefs(s) /\ update_stack(s)
    \/ \E i \in StackIds : delete_stack(i)

SpecStack == Init /\ [][NextStack]_vars

NextComponent ==
    \/ \E n \in {"default", "a"} : create_user(n)
    \/ \E c \in ComponentRequests : create_stack_component(c)
    \/ \E c \in ComponentRequests :
          ValidRefs(c) /\ KeepsType(c, components) /\ update_stack_component(c)

SpecComponent == Init /\ [][NextComponent]_vars

(* Calls that do not overlap: create_run and the steps of one caller's   *)
(* get_or_create_run, each create_run call a single step.                 *)
NextRun ==
    \/ create_stack(SecondStack)
    \/ \E p \in PipelineRequests : create_pipeline(p)
    \/ \E r \in RunRequests : create_run(r)
    \/ \E r \in RunModels({None}, {None}) : get_or_create_run_call(1, r)
    \/ get_or_create_run_create(1)
    \/ get_or_create_run_by_id(1)
    \/ get_or_create_run_by_name(1)

SpecRun == Init /\ [][NextRun]_vars

(* Concurrent callers of get_or_create_run: each create_run is a session  *)
(* whose checks and whose insert are separate steps, interleaved freely.  *)
NextRunConc ==
    \E c \in Callers :
        \/ \E r \in RunModels({None}, {None}) : get_or_create_run_call(c, r)
        \/ get_or_create_run_check(c)
        \/ get_or_create_run_insert(c)
        \/ get_or_create_run_by_id(c)
        \/ get_or_create_run_by_name(c)

SpecRunConc == Init /\ [][NextRunConc]_vars

(* Sharing of stacks and of components in one specification.  The stack   *)
(* guards read the stack table only and the component guards the          *)
(* component table only, so a run works on one of the two kinds: on        *)
(* stacks while the component table is as initialised, on components      *)
(* while the stack table is.                                              *)
NextShare ==
    \/ \E n \in {"default", "a"} : create_user(n)
    \/ components = DefaultComponents /\ \E s \in StackRequests : create_stack(s)
    \/ components = DefaultComponents /\ \E s \in StackRequests :
          ValidRefs(s) /\ update_stack(s)
    \/ stacks = DefaultStacks /\ \E c \in ComponentRequests : create_stack_component(c)
    \/ stacks = DefaultStacks /\ \E c \in ComponentRequests :
          ValidRefs(c) /\ KeepsType(c, components) /\ update_stack_component(c)

SpecShare == Init /\ [][NextShare]_vars

(* runs, artifacts and step runs *)
NextStep ==
    \/ \E r \in RunModels({None}, {None}) : create_run(r)
    \/ \E a \in ArtifactRequests : create_artifact(a)
    \/ \E s \in StepRequests : create_run_step(s)

SpecStep == Init /\ [][NextStep]_vars

(* stacks composed of components, and the deletion of both *)
NextCompose ==
    \/ create_user("a")
    \/ \E c \in ComposeComponents : create_stack_component(c)
    \/ \E s \in ComposeStacks : create_stack(s)
    \/ \E s \in ComposeStacks : update_stack(s)
    \/ \E i \in StackIds : delete_stack(i)
    \/ \E i \in ComponentIds : delete_stack_component(i)

SpecCompose == Init /\ [][NextCompose]_vars

(* flavors and the components that name them *)
NextFlavor ==
    \/ \E f \in FlavorRequests : create_flavor(f)
    \/ \E c \in FlavorComponents : create_stack_component(c)
    \/ \E i \in ComponentIds : delete_stack_component(i)
    \/ \E i \in FlavorIds : delete_flavor(i)

SpecFlavor == Init /\ [][NextFlavor]_vars

(* the calls of the role specification *)
RoleNames == {ADMIN_ROLE, "r"}

RoleRequests == [id : RoleIds, name : RoleNames, permissions : {{}, {"read"}}]

TeamRequests == [id : TeamIds, name : {"t"}]

RoleRefs == {GUEST_ROLE, "r", UuidText(1)}

AssignedRoleRefs == {"r", UuidText(1)}

SubjectRefs == {"default", "t"}

ProjectRefs == {NoName, "default"}

NextRole ==
    \/ \E team \in TeamRequests : create_team(team)
    \/ \E role \in RoleRequests : create_role(role)
    \/ \E role \in RoleRequests : update_role(role)
    \/ \E r \in RoleRefs : delete_role(r)
    \/ \E r \in AssignedRoleRefs, s \in SubjectRefs, p \in ProjectRefs, is_user \in BOOLEAN :
          assign_role(r, s, p, is_user)
    \/ \E r \in AssignedRoleRefs, s \in SubjectRefs, p \in ProjectRefs, is_user \in BOOLEAN :
          revoke_role(r, s, is_user, p)

SpecRole == Init /\ [][NextRole]_vars

(* the calls of the specification of the default entities: users and     *)
(* projects are renamed and deleted, and the default user keeps a second  *)
(* stack in the default project                                           *)
UserModels == [id : UserIds, name : Names]

ProjectModels == [id : ProjectIds, name : Names]

DefaultsStacks ==
    {s \in StackModels({<<1, 2>>}) :
        s.id \in {1, 2} /\ s.project = 1 /\ s.user = 1 /\ ~s.is_shared}

UsersToDelete == {default_user_name, "a", UuidText(1)}

ProjectsToDelete == {default_project_name, "a", UuidText(1)}

NextDefaults ==
    \/ create_user("a")
    \/ create_project("a")
    \/ \E user \in UserModels : update_user(user)
    \/ \E project \in ProjectModels : update_project(project)
    \/ \E u \in UsersToDelete : delete_user(u)
    \/ \E p \in ProjectsToDelete : delete_project(p)
    \/ \E s \in DefaultsStacks : create_stack(s)
    \/ \E s \in DefaultsStacks : update_stack(s)
    \/ \E i \in {1, 2} : delete_stack(i)
    \/ \E i \in {1, 2} : delete_stack_component(i)

SpecDefaults == Init /\ [][NextDefaults]_vars

(* the calls of the specification of component references: stacks of the *)
(* default user that reference the default components, one of them twice, *)
(* or a third component that is stored or not                             *)
ReferencedTwice == <<1, 1>>

RefStacks ==
    {s \in StackModels({<<1, 2>>, ReferencedTwice, <<1, 3>>}) :
        s.id \in {2, 3} /\ s.name \in {"a", "b"} /\ s.project = 1 /\ s.user = 1}

RefComponents ==
    {c \in ComponentModels({"a"}, {CONTAINER_REGISTRY}) :
        c.id = 3 /\ c.project = 1 /\ c.user = 1 /\ ~c.is_shared}

NextRefs ==
    \/ \E c \in RefComponents : create_stack_component(c)
    \/ \E i \in {3} : delete_stack_component(i)
    \/ \E s \in RefStacks : create_stack(s)
    \/ \E s \in RefStacks : update_stack(s)
    \/ \E i \in {2, 3} : delete_stack(i)

SpecRefs == Init /\ [][NextRefs]_vars

(* the calls of the list specification: a second user with a stack, a     *)
(* pipeline and runs, listed under every combination of a few filters     *)
ListedStacks ==
    {s \in StackModels({<<1, 2>>}) :
        s.id = 2 /\ s.name \in {"default", "a"} /\ s.project = 1}

ProjectFilters == {NoName, default_project_name, UuidText(1), UuidText(2)}

UserFilters == {NoName, "a", UuidText(2)}

NextList ==
    \/ create_user("a")
    \/ \E s \in ListedStacks : create_stack(s)
    \/ \E i \in {2} : delete_stack(i)
    \/ \E p \in PipelineRequests : create_pipeline(p)
    \/ \E r \in RunRequests : create_run(r)
    \/ \E p \in ProjectFilters, u \in UserFilters, c \in {None, 1},
          n \in {NoName, "a"}, is_shared \in SUBSET {TRUE} :
          list_stacks(p, u, c, n, is_shared)
    \/ \E stack_id \in {None, 2}, n \in {NoName, "r1"},
          pipeline_id \in {None} \cup PipelineIds, unlisted \in BOOLEAN :
          list_runs(stack_id, n, pipeline_id, unlisted)

SpecList == Init /\ [][NextList]_vars

(* the calls of the secret specification: mappings of at most MaxPairs   *)
(* items whose keys and values hold a letter, a quote, a backslash and a   *)
(* letter that is not ASCII; no engine or the engine of one key           *)
SecretKeys == {<<97>>, <<34>>}

SecretTexts == {<<>>, <<97>>, <<92, 233>>}

SecretDicts ==
    {d \in SeqsUpTo([key : SecretKeys, value : SecretTexts], MaxPairs) :
        \A i, j \in DOMAIN d : d[i].key = d[j].key => i = j}

Engines == {None, 1}

Nonces == {0, 1}

SecretRequests == [id : SecretIds, name : {"s"}, scope : {"workspace"}]

SecretUpdates ==
    [name : {{}, {"s2"}}, scope : {{}}, values : {{}, {<<>>}}]

NextSecret ==
    \/ \E secret \in SecretRequests : from_request(secret)
    \/ \E i \in SecretIds, secret_update \in SecretUpdates : update(i, secret_update)
    \/ \E i \in SecretIds, e \in Engines : get_secret_values(i, e)
    \/ \E i \in SecretIds, v \in SecretDicts, e \in Engines, nonce \in Nonces :
          set_secret_values(i, v, e, nonce)

SpecSecret == Init /\ [][NextSecret]_vars

(* the lineage of the steps of one run *)
LineageRun == [id |-> 1, name |-> "r1", stack_id |-> None, pipeline_id |-> None]

NextLineage ==
    \/ create_run(LineageRun)
    \/ \E a \in ArtifactRequests : create_artifact(a)
    \/ \E s \in LineageCreates : create_run_step(s)
    \/ \E s \in LineageUpdates : update_run_step(s)
    \/ \E a \in ArtifactIds : get_artifact_producer_step(a)

SpecLineage == Init /\ [][NextLineage]_vars

(* The migration specification: the store is opened on a database in any *)
(* migration state, with any handlers on the alembic logger              *)
Revisions == {ZENML_ALEMBIC_START_REVISION, "branch", HEAD}

Databases ==
    {[Migrated EXCEPT !.pc = "idle", !.current_revisions = r, !.db_is_empty = e,
                      !.handlers = h, !.level = "NOTSET",
                      !.called_on = [current_revisions |-> r, db_is_empty |-> e],
                      !.calls = <<>>]
       : r \in SUBSET Revisions, e \in BOOLEAN, h \in 0..MaxHandlers}

InitMigrate == InitTables /\ alembic \in Databases

NextMigrate ==
    \/ \E logging_level \in {"DEBUG", "INFO"} : migrate_database(logging_level)
    \/ migrate_db_is_empty
    \/ migrate_stamp
    \/ migrate_upgrade

SpecMigrate == InitMigrate /\ [][NextMigrate]_vars

(* role calls that overlap with readers: one call writes at a time, the *)
(* other callers see the tables between its commits                      *)
RolePermissions == {{}, {"read"}, {"write"}}

ConcRoleRequests == [id : {MaxRoles}, name : {"r", "r2"}, permissions : RolePermissions]

NextRoleConc ==
    \/ \E c \in Callers, role \in ConcRoleRequests : create_role_commit_role(c, role)
    \/ \E c \in Callers : create_role_commit_permissions(c)
    \/ \E c \in Callers, role \in ConcRoleRequests : update_role_commit_role(c, role)
    \/ \E c \in Callers : update_role_commit_permissions(c)

SpecRoleConc == Init /\ [][NextRoleConc]_vars

(* callers that update one step of one run at the same time *)
ConcStepCreates == StepModels({1}, {"s"}, {1}, {RUNNING}, {<<>>}, {<<>>}, {<<>>})

ConcStepUpdates ==
    StepModels({1}, {"s"}, {1}, {RUNNING, COMPLETED}, {<<>>}, {<<>>}, ArtifactMaps)

NextStepConc ==
    \/ create_run(LineageRun)
    \/ \E a \in ArtifactRequests : create_artifact(a)
    \/ \E s \in ConcStepCreates : create_run_step(s)
    \/ \E c \in Callers, s \in ConcStepUpdates : update_run_step_call(c, s)
    \/ \E c \in Callers : update_run_step_commit(c)

SpecStepConc == Init /\ [][NextStepConc]_vars

(* the edges of one step of one run: mappings of up to two names to      *)
(* MaxEdgeArtifacts artifacts, in the order the handler iterates them    *)
EdgeArtifactIds == 1..MaxEdgeArtifacts

EdgeMaps ==
    {<<>>}
      \cup {<<e>> : e \in [name : {"x", "y"}, artifact_id : EdgeArtifactIds]}
      \cup {<<[name |-> "x", artifact_id |-> a], [name |-> "y", artifact_id |-> b]>> :
              a \in EdgeArtifactIds, b \in EdgeArtifactIds}

EdgeCreates == StepModels({1}, {"s"}, {1}, {RUNNING}, {<<>>, <<1>>}, EdgeMaps, EdgeMaps)

EdgeUpdates ==
    StepModels({1}, {"s"}, {1}, {COMPLETED}, {<<>>, <<1>>},
               {<<>>, <<[name |-> "x", artifact_id |-> 1]>>}, EdgeMaps)

NextEdges ==
    \/ create_run(LineageRun)
    \/ \E a \in [id : EdgeArtifactIds] : create_artifact(a)
    \/ \E s \in EdgeCreates : create_run_step(s)
    \/ \E s \in EdgeUpdates : update_run_step(s)
    \/ \E i \in StepIds : get_run_step(i)
    \/ \E a \in EdgeArtifactIds : get_artifact_producer_step(a)

SpecEdges == Init /\ [][NextEdges]_vars

(* ------------------------- claims: stacks ----------------------------- *)

SameStackKey(x, y) == x.name = y.name /\ x.project = y.project /\ x.user = y.user

(* C1: at most one shared stack exists per (name, project), whoever owns  *)
(* it, in every state reachable by create_stack, update_stack and         *)
(* delete_stack.                                                          *)
C1_OneSharedStackPerName ==
    \A x, y \in stacks :
        (x.is_shared /\ y.is_shared /\ x.name = y.name /\ x.project = y.project)
            => x = y

(* C3: create_stack with the (name, project, owner) key of a stored stack *)
(* fails with StackExistsError and stores nothing; create_stack of an     *)
(* unshared stack with an unused id and existing references succeeds when *)
(* no stored stack has its key, also when another owner already has a     *)
(* stack of that name in the project.                                     *)
C3_Outcome ==
    \A s \in StackRequests :
        /\ (\E x \in stacks : SameStackKey(x, s))
              => create_stack_outcome(s).err = StackExistsError
        /\ ( /\ ~s.is_shared
             /\ ValidRefs(s)
             /\ Missing(stacks, s.id)
             /\ ~\E x \in stacks : SameStackKey(x, s)
             /\ Range(s.components) \subseteq {c.id : c \in components} )
              => create_stack_outcome(s).err = NoError

C3_Step ==
    last'.op = "create_stack" =>
        IF last'.err = NoError
        THEN \E x \in stacks' : x \notin stacks /\ stacks' = stacks \cup {x}
        ELSE stacks' = stacks

C3_CreateStackDomainKey == []C3_Outcome /\ [][C3_Step]_vars

(* two unshared stacks of one name and project with different owners, the *)
(* second just created *)
C3_Witness ==
    /\ last.op = "create_stack" /\ last.err = NoError
    /\ \E x, y \in stacks :
          /\ x.name = y.name /\ x.project = y.project /\ x.user # y.user
          /\ ~x.is_shared /\ ~y.is_shared
          /\ x.name # DEFAULT_STACK_NAME

(* ----------------------- claims: stack components --------------------- *)

SameComponentKey(x, y) ==
    x.name = y.name /\ x.type = y.type /\ x.project = y.project /\ x.user = y.user

(* C4: no two stack components have the same (name, type, project, owner) *)
(* in any state reachable by create_stack_component and                   *)
(* update_stack_component.                                                *)
C4_ComponentKeyUnique ==
    \A x, y \in components : SameComponentKey(x, y) => x = y

(* ----------------------------- claims: sharing ------------------------ *)

(* a stored shared stack of the payload's name and project, other owner *)
SharedByOther(s, rows) ==
    \E x \in rows : /\ x.is_shared /\ x.name = s.name /\ x.project = s.project
                     /\ x.user # s.user

SharedByOtherOfType(c, rows) ==
    \E x \in rows : /\ x.is_shared /\ x.name = c.name /\ x.project = c.project
                     /\ x.type = c.type /\ x.user # c.user

(* the payload shares a stored unshared row and changes nothing else *)
SharesStored(m, rows, same(_, _)) ==
    \E y \in rows : y.id = m.id /\ ~y.is_shared /\ m.is_shared /\ same(y, m)

(* C2 as stated: when another owner already shares a stack (component) of *)
(* the name, project (and type), sharing a second one, at creation or by  *)
(* an update from false to true, fails with the AlreadyExists error and   *)
(* leaves the store unchanged.                                            *)
C2_Original_Outcome ==
    /\ \A s \in StackRequests :
          (s.is_shared /\ ValidRefs(s) /\ SharedByOther(s, stacks)) =>
             /\ Missing(stacks, s.id) => create_stack_outcome(s).err = StackExistsError
             /\ SharesStored(s, stacks, SameStackKey)
                   => update_stack_outcome(s).err = StackExistsError
    /\ \A c \in ComponentRequests :
          (c.is_shared /\ ValidRefs(c) /\ SharedByOtherOfType(c, components)) =>
             /\ Missing(components, c.id)
                   => create_stack_component_outcome(c).err = StackComponentExistsError
             /\ SharesStored(c, components, SameComponentKey)
                   => update_stack_component_outcome(c).err = StackComponentExistsError

C2_Step == (last'.err # NoError) => (stacks' = stacks /\ components' = components)

C2_Original == []C2_Original_Outcome /\ [][C2_Step]_vars

(* C2 as amended: as C2, except that the update of a stack named default, *)
(* or of an orchestrator or artifact store named default, fails with      *)
(* IllegalOperationError; the store is unchanged in every failing case.   *)
C2_Amended_Outcome ==
    /\ \A s \in StackRequests :
          (s.is_shared /\ ValidRefs(s) /\ SharedByOther(s, stacks)) =>
             /\ Missing(stacks, s.id) => create_stack_outcome(s).err = StackExistsError
             /\ SharesStored(s, stacks, SameStackKey) =>
                   update_stack_outcome(s).err =
                      IF s.name = DEFAULT_STACK_NAME THEN IllegalOperationError
                      ELSE StackExistsError
    /\ \A c \in ComponentRequests :
          (c.is_shared /\ ValidRefs(c) /\ SharedByOtherOfType(c, components)) =>
             /\ Missing(components, c.id)
                   => create_stack_component_outcome(c).err = StackComponentExistsError
             /\ SharesStored(c, components, SameComponentKey) =>
                   update_stack_component_outcome(c).err =
                      IF IsDefaultComponent(c) THEN IllegalOperationError
                      ELSE StackComponentExistsError

C2_SecondShareFails == []C2_Amended_Outcome /\ [][C2_Step]_vars

(* an update that would share a second component of a name and type was   *)
(* just refused: the two rows are stored, one shared, one not             *)
C2_Witness ==
    /\ last = Result("update_stack_component", StackComponentExistsError, "shared")
    /\ \E x, y \in components :
          /\ x.name = y.name /\ x.type = y.type /\ x.project = y.project
          /\ x.user # y.user /\ x.is_shared /\ ~y.is_shared
          /\ ~IsDefaultComponent(y)

(* ------------------------- claims: pipeline runs ----------------------- *)

(* C5: two callers of get_or_create_run for the same run (same id and     *)
(* name), neither finding it stored when its call began: both return a    *)
(* run of the same id and exactly one run of that id is stored.           *)
C5_ConcurrentGetOrCreate ==
    \A c1, c2 \in Callers :
        ( /\ c1 # c2
          /\ callers[c1].pc = "done" /\ callers[c2].pc = "done"
          /\ callers[c1].arg = callers[c2].arg
          /\ ~callers[c1].found /\ ~callers[c2].found )
        => /\ callers[c1].err = NoError /\ callers[c2].err = NoError
           /\ callers[c1].ret = callers[c2].ret
           /\ Cardinality(ById(runs, callers[c1].arg.id)) = 1

(* C6: get_or_create_run called when a run of the id or of the name is    *)
(* stored returns that stored run without raising, stores no run, and     *)
(* makes at most one create attempt and at most two reads.                *)
C6_GetOrCreateReturnsStored ==
    \A c \in Callers :
        (callers[c].pc = "done" /\ callers[c].found) =>
            /\ callers[c].err = NoError
            /\ ~callers[c].inserted
            /\ \E x \in runs : /\ x.id = callers[c].ret
                               /\ (x.id = callers[c].arg.id \/ x.name = callers[c].arg.name)
            /\ callers[c].creates <= 1 /\ callers[c].reads <= 2

(* C7: no two stored runs share an id or a name; create_run with a used   *)
(* name or id fails with EntityExistsError and stores nothing.            *)
C7_Unique == \A x, y \in runs : (x.id = y.id \/ x.name = y.name) => x = y

C7_Outcome ==
    \A r \in RunRequests :
        (\E x \in runs : x.id = r.id \/ x.name = r.name)
            => create_run_outcome(r).err = EntityExistsError

C7_Step ==
    (callers' = callers /\ last'.op = "create_run" /\ last'.err # NoError)
        => runs' = runs

C7_RunsUnique == [](C7_Unique /\ C7_Outcome) /\ [][C7_Step]_vars

(* a create_run was refused while two runs are stored *)
C7_Witness ==
    /\ last.op = "create_run" /\ last.err = EntityExistsError
    /\ Cardinality(runs) = 2

(* C8: create_run does not fail for a stack or pipeline id that names no  *)
(* stored row; the run it stores has no stack (pipeline) or one that is   *)
(* stored.                                                                *)
C8_Outcome ==
    \A r \in RunRequests :
        (~\E x \in runs : x.id = r.id \/ x.name = r.name)
            => create_run_outcome(r).err = NoError

C8_Step ==
    (callers' = callers /\ last'.op = "create_run" /\ last'.err = NoError) =>
        \E x \in runs' :
            /\ x \notin runs /\ x.id = last'.ret /\ runs' = runs \cup {x}
            /\ (x.stack_id = None \/ ~Missing(stacks, x.stack_id))
            /\ (x.pipeline_id = None \/ ~Missing(pipelines, x.pipeline_id))

C8_DanglingReferencesDropped == []C8_Outcome /\ [][C8_Step]_vars

(* a run was just created from a payload naming a stack and a pipeline    *)
(* that are not stored: it is stored without them                         *)
C8_Witness ==
    /\ last.op = "create_run" /\ last.err = NoError
    /\ last.why = "no stack, no pipeline"
    /\ \E x \in runs : x.id = last.ret /\ x.stack_id = None /\ x.pipeline_id = None

(* --------------------------- claims: step runs ------------------------ *)

(* C9: create_run_step fails with KeyError when the payload's pipeline    *)
(* run is not stored and with EntityExistsError when a step of the name   *)
(* is stored in that run, and stores nothing in either case; under        *)
(* create_run_step no two stored steps share (name, pipeline_run_id).     *)
C9_Unique ==
    \A x, y \in steps :
        (x.name = y.name /\ x.pipeline_run_id = y.pipeline_run_id) => x = y

C9_Outcome ==
    \A s \in StepRequests :
        /\ Missing(runs, s.pipeline_run_id)
              => create_run_step_outcome(s).err = KeyError
        /\ (\E x \in steps : x.name = s.name /\ x.pipeline_run_id = s.pipeline_run_id)
              => create_run_step_outcome(s).err = EntityExistsError

C9_Step ==
    (last'.op = "create_run_step" /\ last'.why \in {"run", "name"})
        => UNCHANGED <<steps, step_parents, step_input_artifacts, step_output_artifacts>>

C9_StepNameUniqueInRun == [](C9_Unique /\ C9_Outcome) /\ [][C9_Step]_vars

(* a create_run_step was refused for the name while the run holds a step, *)
(* and another run holds a step of the same name                          *)
C9_Witness ==
    /\ last.op = "create_run_step" /\ last.err = EntityExistsError
    /\ \E x, y \in steps : x.name = y.name /\ x.pipeline_run_id # y.pipeline_run_id

(* a parent id, or an artifact id, of the payload names no stored row *)
SuppliesMissingId(s) ==
    \/ \E i \in Range(s.parent_step_ids) : Missing(steps, i)
    \/ \E e \in Range(s.input_artifacts) \cup Range(s.output_artifacts) :
           Missing(artifacts, e.artifact_id)

(* ... the step's own id not counted as a missing parent *)
SuppliesMissingIdButOwn(s) ==
    \/ \E i \in Range(s.parent_step_ids) : Missing(steps, i) /\ i # s.id
    \/ \E e \in Range(s.input_artifacts) \cup Range(s.output_artifacts) :
           Missing(artifacts, e.artifact_id)

C10_Outcome ==
    \A s \in StepRequests :
        ( /\ ~Missing(runs, s.pipeline_run_id)
          /\ existing_step_run(s, steps) = {}
          /\ Missing(steps, s.id)
          /\ SuppliesMissingIdButOwn(s) )
        => create_run_step_outcome(s).err = KeyError

C10_Step ==
    (last'.op = "create_run_step" /\ last'.err # NoError)
        => UNCHANGED <<steps, step_parents, step_input_artifacts, step_output_artifacts>>

EdgeNames == {"x", "y"}

(* C11: asserting a parent, input or output edge whose (step, parent) or  *)
(* (step, artifact) pair is already stored, or was added earlier in the   *)
(* same session, raises nothing and leaves the edge tables as they are:   *)
(* asserting an edge twice gives the state that asserting it once gives.  *)
C11_ReassertIsNoOp ==
    /\ \A c, p \in StepIds :
          LET once == set_run_step_parent_step(c, p, OpenSession) IN
          /\ (\E a \in step_parents : a.child_id = c /\ a.parent_id = p)
                => once = OpenSession
          /\ once.err = NoError => set_run_step_parent_step(c, p, once) = once
    /\ \A i \in StepIds, a \in ArtifactIds, n \in EdgeNames, m \in EdgeNames :
          LET once == set_run_step_input_artifact(i, a, n, OpenSession) IN
          /\ (\E e \in step_input_artifacts : e.step_run_id = i /\ e.artifact_id = a)
                => once = OpenSession
          /\ once.err = NoError => set_run_step_input_artifact(i, a, m, once) = once
    /\ \A i \in StepIds, a \in ArtifactIds, n \in EdgeNames, m \in EdgeNames :
          LET once == set_run_step_output_artifact(i, a, n, OpenSession) IN
          /\ (\E e \in step_output_artifacts : e.step_run_id = i /\ e.artifact_id = a)
                => once = OpenSession
          /\ once.err = NoError => set_run_step_output_artifact(i, a, m, once) = once

(* an update_run_step returned for a step that has an output edge, while  *)
(* parent and input edges are stored too                                  *)
C11_Witness ==
    /\ last.op = "update_run_step" /\ last.err = NoError
    /\ \E e \in step_output_artifacts : e.step_run_id = last.ret
    /\ step_parents # {} /\ step_input_artifacts # {}

(* C12: update_run_step leaves the parent edges and the input edges as    *)
(* they are, whatever parent ids and input artifacts its payload carries; *)
(* the edges it adds are output edges of the payload's step, to artifacts *)
(* of the payload's output mapping, and it removes none.                  *)
C12_Outcome ==
    \A s \in LineageUpdates :
        LET session == update_run_step_session(s) IN
        /\ session.step_parents = step_parents
        /\ session.step_input_artifacts = step_input_artifacts
        /\ step_output_artifacts \subseteq session.step_output_artifacts
        /\ \A e \in session.step_output_artifacts \ step_output_artifacts :
              /\ e.step_run_id = s.id
              /\ \E o \in Range(s.output_artifacts) :
                    o.artifact_id = e.artifact_id /\ o.name = e.name

C12_Step ==
    last'.op = "update_run_step" =>
        /\ step_parents' = step_parents
        /\ step_input_artifacts' = step_input_artifacts
        /\ step_output_artifacts \subseteq step_output_artifacts'
        /\ \A e \in step_output_artifacts' \ step_output_artifacts :
              e.step_run_id = last'.ret

C12_UpdateFreezesParentsAndInputs == []C12_Outcome /\ [][C12_Step]_vars

(* an update_run_step returned for a step that has an output edge and no  *)
(* parent or input edge, though payloads with this outcome carry a stored *)
(* parent step and a stored input artifact                                *)
C12_Witness ==
    /\ last.op = "update_run_step" /\ last.err = NoError
    /\ \E e \in step_output_artifacts : e.step_run_id = last.ret
    /\ ~\E a \in step_parents : a.child_id = last.ret
    /\ ~\E e \in step_input_artifacts : e.step_run_id = last.ret
    /\ \E s \in LineageUpdates :
          /\ update_run_step_outcome(s) = last
          /\ \E i \in Range(s.parent_step_ids) : ~Missing(steps, i)
          /\ \E e \in Range(s.input_artifacts) : ~Missing(artifacts, e.artifact_id)

(* C13: under create_run_step and update_run_step the parent edges are   *)
(* acyclic: no step is its own parent and no chain of parent edges leads  *)
(* from a step back to itself.                                            *)
C13_ParentsAcyclic ==
    ~\E q \in SeqsUpTo(StepIds, MaxSteps) :
        /\ Len(q) >= 1
        /\ \A i \in 1..Len(q) :
              [child_id |-> q[i], parent_id |-> q[(i % Len(q)) + 1]] \in step_parents

(* the steps that are not cached and have an output edge to the artifact *)
NonCachedProducers(a) ==
    {x \in steps : /\ x.status # CACHED
                   /\ \E e \in step_output_artifacts :
                         e.step_run_id = x.id /\ e.artifact_id = a}

(* C14: get_artifact_producer_step(a) returns a step that has an output   *)
(* edge to a and is not cached, never a cached one, and raises KeyError   *)
(* exactly when no such step is stored; it changes no table.              *)
C14_Outcome ==
    \A a \in ArtifactIds :
        \A r \in get_artifact_producer_step_outcomes(a) :
            /\ r.err \in {NoError, KeyError}
            /\ r.err = NoError => \E x \in NonCachedProducers(a) : x.id = r.ret
            /\ r.err = KeyError <=> NonCachedProducers(a) = {}

C14_Step ==
    last'.op = "get_artifact_producer_step" =>
        /\ UNCHANGED <<runVars, stepVars>>
        /\ last'.err = NoError =>
              \E a \in ArtifactIds : \E x \in NonCachedProducers(a) : x.id = last'.ret

C14_ProducerIsNotCached == []C14_Outcome /\ [][C14_Step]_vars

(* an artifact with an output edge from a failed step and one from a      *)
(* cached step: the call returned the failed step                         *)
C14_Witness ==
    /\ last.op = "get_artifact_producer_step" /\ last.err = NoError
    /\ \E x, y \in steps :
          /\ x.id = last.ret /\ x.status = FAILED /\ y.status = CACHED
          /\ \E a \in ArtifactIds :
                /\ [step_run_id |-> x.id, artifact_id |-> a, name |-> "x"] \in step_output_artifacts
                /\ [step_run_id |-> y.id, artifact_id |-> a, name |-> "x"] \in step_output_artifacts

(* ------------------------- claims: deletion --------------------------- *)

InSomeStack(i) == \E s \in stacks : i \in s.components

(* C15 as stated: delete_stack_component of a stored component fails with *)
(* IllegalOperationError when the component is part of a stack, and       *)
(* succeeds when it is part of none.                                      *)
C15_Original ==
    \A x \in components :
        /\ InSomeStack(x.id)
              => delete_stack_component_outcome(x.id).err = IllegalOperationError
        /\ ~InSomeStack(x.id)
              => delete_stack_component_outcome(x.id).err = NoError

(* C15: delete_stack_component fails with IllegalOperationError and       *)
(* removes nothing when the component is part of a stack; when it is part *)
(* of none it succeeds, unless the component is named default and is an   *)
(* orchestrator or an artifact store, which is always refused; every      *)
(* component a stack refers to is stored.                                 *)
C15_Outcome ==
    \A x \in components :
        /\ InSomeStack(x.id)
              => delete_stack_component_outcome(x.id).err = IllegalOperationError
        /\ (~InSomeStack(x.id) /\ ~IsDefaultComponent(x))
              => delete_stack_component_outcome(x.id).err = NoError
        /\ IsDefaultComponent(x)
              => delete_stack_component_outcome(x.id).err = IllegalOperationError

C15_Referenced == \A s \in stacks : \A i \in s.components : ~Missing(components, i)

C15_Step ==
    last'.op = "delete_stack_component" =>
        IF last'.err = NoError
        THEN \E x \in components : ~InSomeStack(x.id) /\ components' = components \ {x}
        ELSE components' = components

C15_DeleteComponentNeedsNoStack ==
    [](C15_Outcome /\ C15_Referenced) /\ [][C15_Step]_vars

(* a component was deleted while a stack other than the default one is    *)
(* stored and another component is still part of no stack                 *)
C15_Witness ==
    /\ last.op = "delete_stack_component" /\ last.err = NoError
    /\ Cardinality(stacks) = 2
    /\ Cardinality(components) = 3

(* C16: delete_flavor raises KeyError when no flavor has the id; it       *)
(* raises IllegalOperationError and keeps the flavor when the flavor      *)
(* column of a stored component equals the flavor's name; otherwise it    *)
(* deletes the flavor, and nothing else.                                  *)
C16_Outcome ==
    \A i \in FlavorIds :
        IF Missing(flavors, i) THEN delete_flavor_outcome(i).err = KeyError
        ELSE \A f \in ById(flavors, i) :
               IF \E c \in components : c.flavor = f.name
               THEN delete_flavor_outcome(i).err = IllegalOperationError
               ELSE delete_flavor_outcome(i).err = NoError

C16_Step ==
    last'.op = "delete_flavor" =>
        /\ components' = components
        /\ IF last'.err = NoError
           THEN \E f \in flavors : /\ flavors' = flavors \ {f}
                                    /\ ~\E c \in components : c.flavor = f.name
           ELSE flavors' = flavors

C16_DeleteFlavorNeedsNoComponent == []C16_Outcome /\ [][C16_Step]_vars

(* a delete_flavor was refused for a flavor whose name only a component   *)
(* of another type carries                                                *)
C16_Witness ==
    /\ last.op = "delete_flavor" /\ last.err = IllegalOperationError
    /\ \E f \in flavors :
          /\ \E c \in components : c.flavor = f.name
          /\ \A c \in components : c.flavor = f.name => c.type # f.type


(* ------------------------------------------------------------------------ *)
(* C17: delete_role fails with IllegalOperationError, and leaves the role   *)
(* stored, while a user or team role assignment references it; so every     *)
(* stored role assignment references a stored role.                        *)
RoleIsAssigned(role_id) ==
    \/ \E a \in user_role_assignments : a.role_id = role_id
    \/ \E a \in team_role_assignments : a.role_id = role_id

C17_Outcome ==
    \A role \in roles :
        RoleIsAssigned(role.id) => delete_role_outcome(role).err = IllegalOperationError

C17_Referenced ==
    /\ \A a \in user_role_assignments : ~Missing(roles, a.role_id)
    /\ \A a \in team_role_assignments : ~Missing(roles, a.role_id)

C17_Step ==
    (last'.op = "delete_role" /\ (roles' # roles \/ last'.err = NoError))
        => /\ last'.err = NoError
           /\ \E role \in roles : roles' = roles \ {role} /\ ~RoleIsAssigned(role.id)

C17_DeleteRoleNeedsNoAssignment ==
    [](C17_Outcome /\ C17_Referenced) /\ [][C17_Step]_vars

C17_Witness ==
    /\ last.op = "delete_role"
    /\ last.err = IllegalOperationError
    /\ last.why = "assigned"
    /\ \E a \in team_role_assignments :
          /\ \A u \in user_role_assignments : u.role_id # a.role_id
          /\ \E role \in roles : role.id = a.role_id /\ ~IsBuiltInRole(role)

(* ------------------------------------------------------------------------ *)
(* C18: update_role and delete_role on a role named admin or guest always   *)
(* fail with IllegalOperationError and leave the role and its permissions   *)
(* unchanged, whether or not a role assignment references the role.        *)
C18_Outcome ==
    \A role \in roles :
        IsBuiltInRole(role) =>
            /\ delete_role_outcome(role).err = IllegalOperationError
            /\ \A request \in RoleRequests :
                  request.id = role.id =>
                      update_role_outcome(request).err = IllegalOperationError

C18_Step ==
    /\ (last'.op \in {"update_role", "delete_role"} /\ last'.err = IllegalOperationError)
          => (roles' = roles /\ role_permissions' = role_permissions)
    /\ \A role \in roles :
          IsBuiltInRole(role) =>
              /\ role \in roles'
              /\ {p \in role_permissions' : p.role_id = role.id}
                   = {p \in role_permissions : p.role_id = role.id}

C18_BuiltInRolesFrozen == []C18_Outcome /\ [][C18_Step]_vars

C18_Witness ==
    /\ last.op = "update_role"
    /\ last.err = IllegalOperationError
    /\ \E role \in roles : IsBuiltInRole(role) /\ ~RoleIsAssigned(role.id)
    /\ \E role \in roles : IsBuiltInRole(role) /\ RoleIsAssigned(role.id)


(* ------------------------------------------------------------------------ *)
(* C19: an update that renames the default project, the default user or the *)
(* default stack fails with IllegalOperationError and leaves the entity     *)
(* unchanged; renaming a project, user or stack that is not a default one   *)
(* to a name no other row of its kind bears succeeds (the stack payload     *)
(* naming a stored project and user).                                       *)
C19_DefaultsKeepTheirName ==
    /\ \A x \in users, user \in UserModels :
          (x.name = default_user_name /\ user.id = x.id /\ user.name # x.name)
              => update_user_outcome(user).err = IllegalOperationError
    /\ \A x \in projects, project \in ProjectModels :
          (x.name = default_project_name /\ project.id = x.id /\ project.name # x.name)
              => update_project_outcome(project).err = IllegalOperationError
    /\ \A x \in stacks, stack \in StackModels({<<1, 2>>}) :
          (x.name = DEFAULT_STACK_NAME /\ stack.id = x.id /\ stack.name # x.name)
              => update_stack_outcome(stack).err = IllegalOperationError

C19_OthersAreRenamed ==
    /\ \A x \in users, user \in UserModels :
          (x.name # default_user_name /\ user.id = x.id /\ ByName(users, user.name) = {})
              => update_user_outcome(user).err = NoError
    /\ \A x \in projects, project \in ProjectModels :
          (/\ x.name # default_project_name
           /\ project.id = x.id
           /\ ByName(projects, project.name) = {})
              => update_project_outcome(project).err = NoError
    /\ \A x \in stacks, stack \in StackModels({<<1, 2>>}) :
          (/\ x.name # DEFAULT_STACK_NAME
           /\ stack.id = x.id
           /\ ByName(stacks, stack.name) = {}
           /\ ValidRefs(stack))
              => update_stack_outcome(stack).err = NoError

C19_Step ==
    /\ (last'.op = "update_user" /\ last'.err # NoError) => users' = users
    /\ (last'.op = "update_project" /\ last'.err # NoError) => projects' = projects
    /\ (last'.op = "update_stack" /\ last'.err # NoError) => stacks' = stacks
    /\ (last'.op = "update_user" /\ last'.err = NoError)
          => \A x \in users : x.name = default_user_name => x \in users'
    /\ (last'.op = "update_project" /\ last'.err = NoError)
          => \A x \in projects : x.name = default_project_name => x \in projects'
    /\ (last'.op = "update_stack" /\ last'.err = NoError)
          => \A x \in stacks : x.name = DEFAULT_STACK_NAME => x \in stacks'

C19_RenameSparesDefaults ==
    [](C19_DefaultsKeepTheirName /\ C19_OthersAreRenamed) /\ [][C19_Step]_vars

C19_Witness ==
    /\ last.op = "update_stack"
    /\ last.err = IllegalOperationError
    /\ ByName(users, "b") # {}
    /\ ByName(projects, "b") # {}
    /\ ByName(stacks, "b") # {}

(* ------------------------------------------------------------------------ *)
(* C20: the default project, the default user, the default stack and the    *)
(* default orchestrator and artifact store are stored in every reachable    *)
(* state: delete_project, delete_user, delete_stack and                     *)
(* delete_stack_component on them fail with IllegalOperationError and       *)
(* remove nothing.                                                          *)
C20_DefaultsStored ==
    /\ [id |-> 1, name |-> default_project_name] \in projects
    /\ [id |-> 1, name |-> default_user_name] \in users
    /\ DefaultStacks \subseteq stacks
    /\ DefaultComponents \subseteq components

C20_Outcome ==
    /\ \A x \in projects :
          x.name = default_project_name
              => delete_project_outcome(x).err = IllegalOperationError
    /\ \A x \in users :
          x.name = default_user_name => delete_user_outcome(x).err = IllegalOperationError
    /\ \A x \in stacks :
          x.name = DEFAULT_STACK_NAME
              => delete_stack_outcome(x.id).err = IllegalOperationError
    /\ \A x \in components :
          IsDefaultComponent(x)
              => delete_stack_component_outcome(x.id).err = IllegalOperationError

C20_Step ==
    (/\ last'.op \in {"delete_project", "delete_user", "delete_stack",
                      "delete_stack_component"}
     /\ last'.err = IllegalOperationError)
        => UNCHANGED <<projects, users, stacks, components>>

C20_DefaultsPersist == [](C20_DefaultsStored /\ C20_Outcome) /\ [][C20_Step]_vars

C20_Witness ==
    /\ last.op = "delete_project"
    /\ last.err = IllegalOperationError
    /\ Cardinality(projects) = 1
    /\ Cardinality(users) = 1
    /\ Cardinality(stacks) = 1


(* ------------------------------------------------------------------------ *)
(* C21: assign_role fails with EntityExistsError exactly when an assignment *)
(* of the same role to the same user or team with the same scope (the same  *)
(* project, or global on both sides) is stored.                             *)
C21_FullTripleIsKey ==
    \A is_user \in BOOLEAN, role \in roles :
        \A subject \in (IF is_user THEN users ELSE teams),
           project_id \in {None} \cup {x.id : x \in projects} :
            (assign_role_outcome(role, subject.id, project_id, is_user).err
                 = EntityExistsError)
              <=> ([role_id |-> role.id, subject_id |-> subject.id,
                    project_id |-> project_id] \in role_assignments(is_user))


(* ------------------------------------------------------------------------ *)
(* C22: revoke_role removes exactly the assignment of the given role,       *)
(* subject and scope: a call without a project removes a global assignment  *)
(* only, and fails with KeyError, removing nothing, when none is stored.    *)
RevokedAssignments ==
    (user_role_assignments \ user_role_assignments')
        \cup (team_role_assignments \ team_role_assignments')

C22_Step ==
    /\ (last'.op = "revoke_role" /\ last'.err = NoError)
          => /\ Cardinality(RevokedAssignments) = 1
             /\ user_role_assignments' \subseteq user_role_assignments
             /\ team_role_assignments' \subseteq team_role_assignments
             /\ \A x \in RevokedAssignments :
                   /\ x.role_id = last'.ret
                   /\ (last'.why = "global") <=> (x.project_id = None)
    /\ (last'.op = "revoke_role" /\ last'.err # NoError)
          => UNCHANGED <<user_role_assignments, team_role_assignments>>

C22_RevokeExactScope == [][C22_Step]_vars


(* ------------------------------------------------------------------------ *)
(* C23: a create_stack that passes the project, user, id and name guards    *)
(* fails with KeyError, storing no stack, exactly when a referenced         *)
(* component id is not stored; with every referenced id stored, one of them *)
(* referenced twice included, it succeeds.                                  *)
C23_KeyErrorIffMissingComponent ==
    \A stack \in RefStacks :
        (create_stack_outcome(stack).err = NoError
            \/ create_stack_outcome(stack).why = "components")
          => ((create_stack_outcome(stack).err = KeyError)
                <=> \E i \in Range(stack.components) : Missing(components, i))

(* ------------------------------------------------------------------------ *)
(* C24: update_stack fails with KeyError, leaving the stored stack and its  *)
(* components unchanged, when a component id the payload references is not  *)
(* stored.                                                                  *)
C24_UpdateNeedsStoredComponents ==
    \A stack \in RefStacks :
        (/\ ~Missing(stacks, stack.id)
         /\ \E i \in Range(stack.components) : Missing(components, i))
          => update_stack_outcome(stack).err = KeyError


(* ------------------------------------------------------------------------ *)
(* C25: no two users, no two teams, no two roles and no two projects bear   *)
(* the same name, whatever creates and updates were called.                 *)
NamesUnique(rows) == \A x, y \in rows : x.name = y.name => x = y

C25_NamesUnique ==
    /\ NamesUnique(users)
    /\ NamesUnique(teams)
    /\ NamesUnique(roles)
    /\ NamesUnique(projects)


(* ------------------------------------------------------------------------ *)
(* C26: a list operation called without filters returns every stored row    *)
(* of its kind, and one called with a filter that names a project or a user *)
(* id that is not stored returns no row and raises no error.                *)
C26_UnknownFilterListsNothing ==
    /\ list_stacks_outcomes(NoName, NoName, None, NoName, {})
          = {Listed("list_stacks", stacks)}
    /\ list_runs_outcome(None, NoName, None, FALSE) = Listed("list_runs", runs)
    /\ \A p \in ProjectFilters, u \in UserFilters :
          (\/ (p \in UuidTexts /\ get_schema_by_name_or_id(p, projects) = {})
           \/ (u \in UuidTexts /\ get_schema_by_name_or_id(u, users) = {}))
            => list_stacks_outcomes(p, u, None, NoName, {}) = {Listed("list_stacks", {})}

(* ------------------------------------------------------------------------ *)
(* C27: a list operation returns exactly the rows that satisfy every given  *)
(* filter: list_runs called with a pipeline id and unlisted set returns the *)
(* runs that are of that pipeline and also of no pipeline.                  *)
C27_FiltersAreConjoined ==
    \A stack_id \in {None, 2}, n \in {NoName, "r1"},
       pipeline_id \in {None} \cup PipelineIds, unlisted \in BOOLEAN :
        list_runs_outcome(stack_id, n, pipeline_id, unlisted).rows
          = {x \in runs :
                /\ stack_id # None => x.stack_id = stack_id
                /\ n # NoName => x.name = n
                /\ pipeline_id # None => x.pipeline_id = pipeline_id
                /\ unlisted => x.pipeline_id = None}


(* ------------------------------------------------------------------------ *)
(* C28: a mapping whose encoding fits the column, stored by                 *)
(* set_secret_values, is what get_secret_values returns with the same       *)
(* engine, with a key or with none.                                         *)
C28_RoundTrip ==
    /\ \A v \in SecretDicts, e \in Engines, nonce \in Nonces :
          dump_secret_values(v, e, nonce).err = NoError
            => load_secret_values(dump_secret_values(v, e, nonce).value, e)
                 = [err |-> NoError, value |-> v]
    /\ \A row \in secrets : \A v \in secret_call[row.id].secret_values :
          get_secret_values_outcome(row, secret_call[row.id].encryption_engine)
            = [err |-> NoError, value |-> v]

C28_Witness ==
    /\ last.op = "get_secret_values"
    /\ last.err = NoError
    /\ secret_call[last.ret].encryption_engine # None
    /\ \E v \in secret_call[last.ret].secret_values :
          \E i \in DOMAIN v : v[i].key = <<34>> /\ 92 \in Range(v[i].value)

(* ------------------------------------------------------------------------ *)
(* C29: only set_secret_values changes the value blob: from_request builds  *)
(* a secret without one, update leaves it as it is, also when the update    *)
(* carries values, and get_secret_values on a secret without a blob fails   *)
(* with KeyError.                                                           *)
C29_Outcome ==
    \A row \in secrets, e \in Engines :
        row.values = {} => get_secret_values_outcome(row, e).err = KeyError

C29_Step ==
    /\ last'.op = "from_request" => \A row \in secrets' \ secrets : row.values = {}
    /\ last'.op \in {"from_request", "update", "get_secret_values"}
          => \A row \in secrets : \E after \in secrets' :
                after.id = row.id /\ after.values = row.values

C29_OnlySetChangesBlob == []C29_Outcome /\ [][C29_Step]_vars

C29_Witness ==
    /\ last.op = "update"
    /\ last.why = "values"
    /\ \E row \in secrets : row.name = "s2" /\ row.values # {}

(* ------------------------------------------------------------------------ *)
(* C30: set_secret_values fails with ValueError exactly when the encoded    *)
(* length exceeds TEXT_FIELD_MAX_LENGTH, and then the blob stored before    *)
(* stays; up to the capacity it succeeds.                                   *)
EncodedLength(v, e) ==
    4 * ((Len(utf8_encode(json_dumps(v))) + (IF e = None THEN 0 ELSE 2) + 2) \div 3)

C30_Outcome ==
    \A v \in SecretDicts, e \in Engines, nonce \in Nonces :
        IF EncodedLength(v, e) > TEXT_FIELD_MAX_LENGTH
        THEN dump_secret_values(v, e, nonce).err = ValueError
        ELSE dump_secret_values(v, e, nonce).err = NoError

C30_Step ==
    /\ (last'.op = "set_secret_values" /\ last'.err # NoError)
          => (last'.err = ValueError /\ secrets' = secrets)
    /\ (last'.op = "set_secret_values" /\ last'.err = NoError)
          => \A row \in secrets' : row.id = last'.ret =>
                \A blob \in row.values : Len(blob) <= TEXT_FIELD_MAX_LENGTH

C30_TooLargeIsRefused == []C30_Outcome /\ [][C30_Step]_vars

C30_Witness ==
    /\ last.op = "set_secret_values"
    /\ last.err = ValueError
    /\ \E row \in secrets : \E blob \in row.values : Len(blob) = TEXT_FIELD_MAX_LENGTH

(* ------------------------------------------------------------------------ *)
(* C31: migrate_database calls upgrade exactly once in every case, and     *)
(* calls stamp(ZENML_ALEMBIC_START_REVISION) exactly when the database it  *)
(* is called on records no revision and is not empty, before that upgrade; *)
(* with a recorded revision or an empty database stamp is never called.    *)
C31_StampThenUpgrade ==
    LET legacy == /\ alembic.called_on.current_revisions = {}
                  /\ ~alembic.called_on.db_is_empty
    IN  /\ alembic.pc = "done"
             => alembic.calls = IF legacy THEN <<StampCall, UpgradeCall>>
                                ELSE <<UpgradeCall>>
        /\ alembic.pc # "done"
             => /\ alembic.calls \in {<<>>, <<StampCall>>}
                /\ alembic.calls = <<StampCall>> => legacy

C31_Witness ==
    /\ alembic.pc = "done"
    /\ alembic.called_on = [current_revisions |-> {}, db_is_empty |-> FALSE]
    /\ alembic.calls = <<StampCall, UpgradeCall>>

(* ------------------------------------------------------------------------ *)
(* C32: every mutating operation commits once, so that no other caller     *)
(* observes an intermediate state: while create_role or update_role is in  *)
(* progress the role that get_role returns is the role as it was before    *)
(* the call or the role the call asks for, and a call that succeeds has    *)
(* made one commit.                                                        *)
C32_CommitsOnce ==
    \A c \in Callers :
        /\ callers[c].pc = "permissions"
             => role_to_model(callers[c].arg.id)
                  \in {callers[c].before,
                       {[name |-> callers[c].arg.name,
                         permissions |-> callers[c].arg.permissions]}}
        /\ callers[c].pc = "done" /\ callers[c].err = NoError
             => callers[c].commits = 1

(* ------------------------------------------------------------------------ *)
(* C33: when callers assert the same output edge of a step at the same     *)
(* time, none of the calls fails (a call fails only with KeyError, when    *)
(* its step or its artifact is not stored) and one row of the edge is      *)
(* stored.                                                                  *)
C33_ConcurrentEdgeIsSafe ==
    /\ \A c \in Callers :
          callers[c].pc = "done" => callers[c].err \in {NoError, KeyError}
    /\ \A a, b \in step_output_artifacts :
          a.step_run_id = b.step_run_id /\ a.artifact_id = b.artifact_id => a = b

(* ------------------------------------------------------------------------ *)
(* C34: get_run_step after a successful create_run_step returns the input  *)
(* mapping, the output mapping and the set of parent ids of the payload,   *)
(* for every payload, also when two names of a mapping refer to the same   *)
(* artifact.                                                                *)
C34_CreatedStepIsReturned ==
    \A s \in EdgeCreates :
        LET session == create_run_step_session(s) IN
        session.err = NoError =>
            get_run_step_models(s.id, session)
                = {[step_from_create_model(s) EXCEPT !.id = s.id]
                      @@ [parent_step_ids |-> Range(s.parent_step_ids),
                          input_artifacts |-> Range(s.input_artifacts),
                          output_artifacts |-> Range(s.output_artifacts)]}

(* ------------------------------------------------------------------------ *)
(* C35: under create_run_step and update_run_step, no two stored output    *)
(* edges of one step carry the same output name and no two stored input    *)
(* edges of one step carry the same input name.                             *)
C35_EdgeNamesUnique ==
    /\ \A a, b \in step_output_artifacts :
          a.step_run_id = b.step_run_id /\ a.name = b.name => a = b
    /\ \A a, b \in step_input_artifacts :
          a.step_run_id = b.step_run_id /\ a.name = b.name => a = b

(* ------------------------------------------------------------------------ *)
(* C36: the edge tables only grow: no create_run_step, update_run_step or  *)
(* get_artifact_producer_step call removes or rewrites a stored parent,    *)
(* input or output edge, so that an edge that is stored stays stored.      *)
C36_Step ==
    /\ step_parents \subseteq step_parents'
    /\ step_input_artifacts \subseteq step_input_artifacts'
    /\ step_output_artifacts \subseteq step_output_artifacts'

C36_EdgesOnlyGrow == [][C36_Step]_vars

(* an update_run_step returned for a step that had an output edge and    *)
(* has two now, with a parent edge and an input edge stored              *)
C36_Witness ==
    /\ last.op = "update_run_step" /\ last.err = NoError
    /\ Cardinality({e \in step_output_artifacts : e.step_run_id = last.ret}) = 2
    /\ step_parents # {} /\ step_input_artifacts # {}

(* ------------------------------------------------------------------------ *)
(* C37: create_stack and create_stack_component check the id, then the     *)
(* name of the owner in the project, then, for a shared payload only, the  *)
(* shared name in the project, and report the first check that fails: a    *)
(* payload that fails the id check and the owner check gets the id error,  *)
(* one that fails the owner check and the shared check gets the owner      *)
(* error.  A refused call leaves the tables as they are.                    *)
GuardsFailed(x, rows, typed) ==
    LET same == {y \in rows : /\ y.name = x.name
                              /\ y.project = x.project
                              /\ (typed => y.type = x.type)}
    IN  [id |-> \E y \in rows : y.id = x.id,
         domain |-> \E y \in same : y.user = x.user,
         shared |-> x.is_shared /\ \E y \in same : y.is_shared]

FirstGuardReported(out, failed, err) ==
    /\ failed.id => out.err = err /\ out.why = "id"
    /\ ~failed.id /\ failed.domain => out.err = err /\ out.why = "domain"
    /\ ~failed.id /\ ~failed.domain /\ failed.shared => out.err = err /\ out.why = "shared"
    /\ ~failed.id /\ ~failed.domain /\ ~failed.shared => out.err # err

C37_Outcome ==
    /\ \A s \in StackRequests :
          ValidRefs(s) => FirstGuardReported(create_stack_outcome(s),
                                             GuardsFailed(s, stacks, FALSE),
                                             StackExistsError)
    /\ \A c \in ComponentRequests :
          ValidRefs(c) => FirstGuardReported(create_stack_component_outcome(c),
                                             GuardsFailed(c, components, TRUE),
                                             StackComponentExistsError)

C37_Step ==
    /\ last'.op \in {"create_stack", "create_stack_component"}
    /\ last'.err \in {StackExistsError, StackComponentExistsError}
    => stacks' = stacks /\ components' = components

C37_GuardOrder == []C37_Outcome /\ [][C37_Step]_vars

(* a create_stack refused for its id, with a payload that fails the      *)
(* owner check and the shared check as well                               *)
C37_Witness ==
    /\ last.op = "create_stack" /\ last.why = "id"
    /\ \E s \in StackRequests :
          /\ ValidRefs(s)
          /\ create_stack_outcome(s) = last
          /\ GuardsFailed(s, stacks, FALSE) = [id |-> TRUE, domain |-> TRUE, shared |-> TRUE]

(* ------------------------------------------------------------------------ *)
(* C38: the name-or-id resolver looks up by id when the input is a valid   *)
(* UUID and by name otherwise, and never falls back: for the text of a     *)
(* UUID it returns the row of that id or raises KeyError, also when a row  *)
(* has that text as its name; for any other input it returns a row of      *)
(* that name or raises KeyError.                                            *)
ResolvedRuns(name_or_id) ==
    IF name_or_id \in UuidTexts THEN {x \in runs : UuidText(x.id) = name_or_id}
    ELSE {x \in runs : x.name = name_or_id}

C38_Outcome ==
    \A n \in RunNames \cup UuidTexts :
        get_schema_by_name_or_id(n, runs) = ResolvedRuns(n)

C38_Step ==
    \A c \in Callers :
        callers[c].pc = "get_run_by_name" /\ callers'[c].pc = "done" =>
            IF ResolvedRuns(callers[c].arg.name) = {}
            THEN callers'[c].err = KeyError
            ELSE /\ callers'[c].err = NoError
                 /\ callers'[c].ret \in {x.id : x \in ResolvedRuns(callers[c].arg.name)}

C38_ResolverNeverFallsBack == []C38_Outcome /\ [][C38_Step]_vars

(* get_run of a name that is the text of a UUID raised KeyError while a  *)
(* run of that name is stored                                             *)
C38_Witness ==
    /\ callers[1].pc = "done" /\ callers[1].err = KeyError
    /\ callers[1].arg.name \in UuidTexts
    /\ \E x \in runs : x.name = callers[1].arg.name

(* ------------------------------------------------------------------------ *)
(* C39: the model update_run_step returns is the model get_run_step        *)
(* returns for the step right afterwards: its parent ids, inputs and       *)
(* outputs are those stored for the step, not those of the payload.        *)
C39_UpdateReturnsStoredStep ==
    \A s \in EdgeUpdates :
        LET session == update_run_step_session(s) IN
        session.err = NoError =>
            update_run_step_model(s, session) \subseteq get_run_step_models(s.id, session)

(* ------------------------------------------------------------------------ *)
(* C40: the default stack is protected by its stored name alone: every     *)
(* stack whose stored name is DEFAULT_STACK_NAME, whoever owns it and      *)
(* whether create_stack or a rename by update_stack gave it the name, is   *)
(* refused by update_stack and by delete_stack with IllegalOperationError, *)
(* and stays as it is in every later state.                                 *)
C40_Outcome ==
    \A x \in stacks :
        x.name = DEFAULT_STACK_NAME =>
            /\ delete_stack_outcome(x.id).err = IllegalOperationError
            /\ \A s \in StackRequests :
                  s.id = x.id => update_stack_outcome(s).err = IllegalOperationError

C40_Step ==
    \A x \in stacks : x.name = DEFAULT_STACK_NAME => x \in stacks'

C40_DefaultNameProtects == []C40_Outcome /\ [][C40_Step]_vars

(* delete_stack was refused while a stack of the default name is stored *)
(* that is not the store's own and belongs to another user               *)
C40_Witness ==
    /\ last.op = "delete_stack" /\ last.err = IllegalOperationError
    /\ \E x \in stacks : /\ x.name = DEFAULT_STACK_NAME
                         /\ x \notin DefaultStacks
                         /\ x.user # 1

====
